---- MODULE Spec2Model ----
(***************************************************************************)
(* Stripe / Cin7 payment integration: the sale discovery worker, the       *)
(* Stripe webhook pipeline and the admin operations, over the four SQLite  *)
(* tables of migrations/001_initial_schema.sql.                            *)
(*                                                                         *)
(* The service is one Node.js process. better-sqlite3 is synchronous, so a *)
(* handler runs without interleaving from its start to its first `await`   *)
(* on an outbound HTTP call, and again from the call's completion to the   *)
(* next `await` or to its end. Each action below is one such run.          *)
(*                                                                         *)
(* The clock counts half days (12 h). SQLite's datetime('now') yields      *)
(* 'YYYY-MM-DD HH:MM:SS' and the worker stores expires_at with             *)
(* Date.toISOString(), 'YYYY-MM-DDTHH:MM:SS.sssZ'; the comparisons of the  *)
(* idempotency key queries are comparisons of these strings.               *)
(***************************************************************************)
EXTENDS Integers, Sequences, FiniteSets, TLC

\* ------------------------------------------------------------------ bounds
MaxNow       == 4   \* the clock stops advancing here
MaxPostCalls == 2   \* admin retries are issued while fewer postPayment calls were made
MaxBatch     == 2   \* the sales of a batch where it is drawn from all four sales
MaxRuns      == 3   \* runMigrations is run this often

\* --------------------------------------------------------------- constants
KEY_TTL == 2        \* 24 * 60 * 60 * 1000 ms, in half days

\* ------------------------------------------------------------ input domain
SaleIds  == {1, 2}
OtherSaleIds == {3, 4}   \* sales that are not eligible for a payment link
AmountSaleIds == {5, 6, 7, 8}   \* eligible sales with unusual totals
AllSaleIds == SaleIds \cup OtherSaleIds \cup AmountSaleIds
EventIds == {"evt_0", "evt_1", "evt_2", "evt_3"}
PaymentEventIds == {"evt_4", "evt_5"}   \* further events about the payment of sale 1
Cycles   == {1, 2}   \* a cycle and the one the next interval tick starts over it
NULL     == 0     \* SQL NULL / undefined in a numeric column

\* The sales the sales system returns from /SaleList, by ID. Totals are in
\* thousandths of the major unit, 0 standing for an absent (falsy) field.
\* Sale 3 is a draft and sale 4 has no Status (undefined, here "").
\* Sale 5 has no total at all, sale 6 a negative TotalBeforeTax (-2.50) ahead
\* of its GrandTotal, sale 7 a Total of 0.004 and sale 8 only a GrandTotal,
\* of 19.996.
Cin7Sale(id) ==
    CASE id = 1 -> [ID |-> 1, SaleOrderNumber |-> "SO-1", Status |-> "AUTHORISED",
                    Total |-> 150000, TotalBeforeTax |-> 0, GrandTotal |-> 0,
                    Currency |-> "USD"]
      [] id = 2 -> [ID |-> 2, SaleOrderNumber |-> "", Status |-> "Invoiced",
                    Total |-> 0, TotalBeforeTax |-> 80004, GrandTotal |-> 90000,
                    Currency |-> ""]
      [] id = 4 -> [ID |-> 4, SaleOrderNumber |-> "SO-4", Status |-> "",
                    Total |-> 20000, TotalBeforeTax |-> 0, GrandTotal |-> 0,
                    Currency |-> "USD"]
      [] id = 5 -> [ID |-> 5, SaleOrderNumber |-> "SO-5", Status |-> "AUTHORISED",
                    Total |-> 0, TotalBeforeTax |-> 0, GrandTotal |-> 0,
                    Currency |-> "USD"]
      [] id = 6 -> [ID |-> 6, SaleOrderNumber |-> "SO-6", Status |-> "AUTHORISED",
                    Total |-> 0, TotalBeforeTax |-> -2500, GrandTotal |-> 9000,
                    Currency |-> "USD"]
      [] id = 7 -> [ID |-> 7, SaleOrderNumber |-> "SO-7", Status |-> "INVOICED",
                    Total |-> 4, TotalBeforeTax |-> 0, GrandTotal |-> 0,
                    Currency |-> "USD"]
      [] id = 8 -> [ID |-> 8, SaleOrderNumber |-> "SO-8", Status |-> "INVOICED",
                    Total |-> 0, TotalBeforeTax |-> 0, GrandTotal |-> 19996,
                    Currency |-> "usd"]
      [] OTHER  -> [ID |-> id, SaleOrderNumber |-> "", Status |-> "DRAFT",
                    Total |-> 10000, TotalBeforeTax |-> 0, GrandTotal |-> 0,
                    Currency |-> "aud"]

\* The events Stripe delivers, by event id: evt_1 and evt_3 are two events
\* about the same charge of sale 1, evt_2 is a charge of sale 2, and evt_0 is
\* a charge whose metadata names a sale but carries no cin7_reference.
\* evt_4 is the payment_intent.succeeded event of the payment whose charge
\* evt_1 reports, and evt_5 the charge.refunded event of that charge; their
\* objects carry the metadata of the payment link.
StripeEvent(e) ==
    CASE e = "evt_0" -> [id |-> "evt_0", type |-> "charge.succeeded", object_id |-> "ch_1",
                         cin7_sale_id |-> "1", cin7_reference |-> "",
                         amount |-> 15000, currency |-> "usd"]
      [] e = "evt_1" -> [id |-> "evt_1", type |-> "charge.succeeded", object_id |-> "ch_1",
                         cin7_sale_id |-> "1", cin7_reference |-> "SO-1",
                         amount |-> 15000, currency |-> "usd"]
      [] e = "evt_2" -> [id |-> "evt_2", type |-> "charge.succeeded", object_id |-> "ch_2",
                         cin7_sale_id |-> "2", cin7_reference |-> "SALE-2",
                         amount |-> 8000, currency |-> "usd"]
      [] e = "evt_3" -> [id |-> "evt_3", type |-> "charge.succeeded", object_id |-> "ch_1",
                         cin7_sale_id |-> "1", cin7_reference |-> "SO-1",
                         amount |-> 15000, currency |-> "usd"]
      [] e = "evt_5" -> [id |-> "evt_5", type |-> "charge.refunded", object_id |-> "ch_1",
                         cin7_sale_id |-> "1", cin7_reference |-> "SO-1",
                         amount |-> 15000, currency |-> "usd"]
      [] OTHER       -> [id |-> e, type |-> "payment_intent.succeeded", object_id |-> "pi_1",
                         cin7_sale_id |-> "1", cin7_reference |-> "SO-1",
                         amount |-> 15000, currency |-> "usd"]

IntentIds == {"ch_1", "ch_2", "pi_1", ""}
Pairs     == SaleIds \X IntentIds
LinkStatuses == {"pending", "paid", "failed"}

\* ----------------------------------------------------------------- helpers
\* String.prototype.toUpperCase on the strings that occur.
ToUpperCase(s) ==
    CASE s = "usd"        -> "USD"
      [] s = "aud"        -> "AUD"
      [] s = "Invoiced"   -> "INVOICED"
      [] s = "authorised" -> "AUTHORISED"
      [] s = "draft"      -> "DRAFT"
      [] OTHER            -> s

\* parseInt(s, 10) of a metadata string; 0 stands for NaN as well (both falsy).
ParseInt(s) ==
    CASE s = "1" -> 1
      [] s = "2" -> 2
      [] s = "3" -> 3
      [] OTHER   -> 0

\* SELECT COUNT(*) ... WHERE Match.
CountRows(rows, Match(_)) == Cardinality({i \in 1..Len(rows) : Match(rows[i])})

\* stmt.get() of better-sqlite3: the first matching row, as a sequence of
\* length 1, or the empty sequence when no row matches (undefined).
FirstRow(rows, Match(_)) ==
    LET found == SelectSeq(rows, Match)
    IN  IF found = << >> THEN << >> ELSE <<Head(found)>>

\* The calendar day of a clock value.
DayOf(t) == t \div 2

\* expires_at > datetime('now') as SQLite compares the two TEXT values: the
\* dates decide, and on equal dates 'T' (0x54) is greater than ' ' (0x20).
ExpiresAfterNow(expires_at, t) == DayOf(expires_at) >= DayOf(t)

\* expires_at <= datetime('now'), the same comparison negated.
ExpiresAtOrBeforeNow(expires_at, t) == ~ExpiresAfterNow(expires_at, t)

VARIABLES
    now,                 \* the clock, in half days
    sale_payment_links,  \* table: sequence of rows, id = position
    webhook_events,      \* table: event_id -> the processed flags of its rows
    payment_postings,    \* table: sequence of rows, id = position
    idempotency_keys,    \* table: sequence of rows
    cycle,               \* the worker cycles in flight: pc, remaining batch, counts
    webhookTasks,        \* events whose processWebhookAsync awaits postPayment
    retryTasks,          \* admin retries awaiting postPayment: <<id, force>> -> count
    linkCalls,           \* sale -> createPaymentLink calls started / succeeded
    postCalls,           \* pair -> postPayment calls started / succeeded, by force
    response,            \* the last HTTP response sent
    env,                 \* what the environment does in this run (see Next)
    config,              \* the parsed process.env: fixed while the process runs
    service,             \* the Node.js process: "running" or "crashed"
    worker,              \* saleDiscoveryWorker: isRunning and whether intervalId is set
    database             \* the migrations directory, the migrations table, the schema

vars == <<now, sale_payment_links, webhook_events, payment_postings, idempotency_keys,
          cycle, webhookTasks, retryTasks, linkCalls, postCalls, response, env,
          config, service, worker, database>>

stores == <<sale_payment_links, webhook_events, payment_postings, idempotency_keys>>

\* ------------------------------------------------- salePaymentLinkRepository
\* A findBySaleId that never finds the link.
SalePaymentLink_findBySaleId_Blind(links, cin7_sale_id) == << >>

\* findBySaleId: SELECT * FROM sale_payment_links WHERE cin7_sale_id = ?
SalePaymentLink_findBySaleId(links, cin7_sale_id) ==
    FirstRow(links, LAMBDA r : r.cin7_sale_id = cin7_sale_id)

\* findById, called by the admin routes: the row with this primary key.
SalePaymentLink_findById(links, id) ==
    FirstRow(links, LAMBDA r : r.id = id)

\* The UNIQUE constraint on sale_payment_links.cin7_sale_id rejects the insert.
SalePaymentLink_createThrows(links, cin7_sale_id) ==
    \E i \in 1..Len(links) : links[i].cin7_sale_id = cin7_sale_id

\* create: INSERT INTO sale_payment_links; AUTOINCREMENT gives the next id.
SalePaymentLink_create(links, link) ==
    Append(links, [id |-> Len(links) + 1,
                   cin7_sale_id |-> link.cin7_sale_id,
                   cin7_reference |-> link.cin7_reference,
                   stripe_payment_link_id |-> link.stripe_payment_link_id,
                   amount |-> link.amount,
                   currency |-> link.currency,
                   status |-> link.status])

\* An update that deletes the row it should change.
SalePaymentLink_updateStatus_Deletes(links, cin7_sale_id, status) ==
    SelectSeq(links, LAMBDA r : r.cin7_sale_id # cin7_sale_id)

\* updateStatus: UPDATE sale_payment_links SET status = ? WHERE cin7_sale_id = ?
SalePaymentLink_updateStatus(links, cin7_sale_id, status) ==
    [i \in 1..Len(links) |->
        IF links[i].cin7_sale_id = cin7_sale_id
        THEN [links[i] EXCEPT !.status = status]
        ELSE links[i]]

\* ---------------------------------------------------- webhookEventRepository
\* exists: SELECT COUNT(*) FROM webhook_events WHERE event_id = ?  > 0
WebhookEvent_exists_Blind(events, event_id) == FALSE

WebhookEvent_exists(events, event_id) == Len(events[event_id]) > 0

\* The UNIQUE constraint on webhook_events.event_id rejects the insert.
WebhookEvent_createThrows(events, event_id) == Len(events[event_id]) > 0

\* An insert that stores nothing.
WebhookEvent_create_Lost(events, event_id, processed) == events

\* An insert that stores the event as processed.
WebhookEvent_create_AsProcessed(events, event_id, processed) ==
    [events EXCEPT ![event_id] = Append(@, TRUE)]

\* create: INSERT INTO webhook_events (..., processed, ...)
WebhookEvent_create(events, event_id, processed) ==
    [events EXCEPT ![event_id] = Append(@, processed)]

\* markProcessed: UPDATE webhook_events SET processed = 1 WHERE event_id = ?
WebhookEvent_markProcessed(events, event_id) ==
    [events EXCEPT ![event_id] = [i \in 1..Len(@) |-> TRUE]]

\* A reset that updates nothing.
WebhookEvent_resetProcessed_Noop(events, event_id) == events

\* The raw statement of the replay route:
\* UPDATE webhook_events SET processed = 0, processed_at = NULL WHERE event_id = ?
WebhookEvent_resetProcessed(events, event_id) ==
    [events EXCEPT ![event_id] = [i \in 1..Len(@) |-> FALSE]]

\* findByEventId(...).processed of an event that exists.
WebhookEvent_processed(events, event_id) == events[event_id][1]

\* -------------------------------------------------- paymentPostingRepository
SamePair(r, cin7_sale_id, stripe_payment_intent_id) ==
    /\ r.cin7_sale_id = cin7_sale_id
    /\ r.stripe_payment_intent_id = stripe_payment_intent_id

\* A check that never finds the row of the pair.
PaymentPosting_existsForSaleAndIntent_Never(postings, cin7_sale_id, stripe_payment_intent_id) == FALSE

\* existsForSaleAndIntent: SELECT COUNT(*) ... WHERE cin7_sale_id = ? AND
\* stripe_payment_intent_id = ?  > 0. The posted_to_cin7 column is not read.
PaymentPosting_existsForSaleAndIntent(postings, cin7_sale_id, stripe_payment_intent_id) ==
    CountRows(postings, LAMBDA r : SamePair(r, cin7_sale_id, stripe_payment_intent_id)) > 0

\* The UNIQUE(cin7_sale_id, stripe_payment_intent_id) constraint rejects the insert.
PaymentPosting_createThrows(postings, cin7_sale_id, stripe_payment_intent_id) ==
    \E i \in 1..Len(postings) : SamePair(postings[i], cin7_sale_id, stripe_payment_intent_id)

\* An insert that stores nothing.
PaymentPosting_create_Lost(postings, posting) == postings

\* An insert that stores the row as already posted.
PaymentPosting_create_AsPosted(postings, posting) ==
    Append(postings, [id |-> Len(postings) + 1,
                      cin7_sale_id |-> posting.cin7_sale_id,
                      stripe_payment_intent_id |-> posting.stripe_payment_intent_id,
                      stripe_charge_id |-> posting.stripe_charge_id,
                      amount |-> posting.amount,
                      currency |-> posting.currency,
                      posted_to_cin7 |-> TRUE,
                      cin7_response |-> NULL])

\* create: INSERT INTO payment_postings; AUTOINCREMENT gives the next id.
PaymentPosting_create(postings, posting) ==
    Append(postings, [id |-> Len(postings) + 1,
                      cin7_sale_id |-> posting.cin7_sale_id,
                      stripe_payment_intent_id |-> posting.stripe_payment_intent_id,
                      stripe_charge_id |-> posting.stripe_charge_id,
                      amount |-> posting.amount,
                      currency |-> posting.currency,
                      posted_to_cin7 |-> posting.posted_to_cin7,
                      cin7_response |-> NULL])

\* An update that lost its WHERE clause.
PaymentPosting_markPosted_AllRows(postings, cin7_sale_id, stripe_payment_intent_id, cin7_response) ==
    [i \in 1..Len(postings) |->
        [postings[i] EXCEPT !.posted_to_cin7 = TRUE, !.cin7_response = cin7_response]]

\* markPosted: UPDATE payment_postings SET posted_to_cin7 = 1, cin7_response = ?
\* WHERE cin7_sale_id = ? AND stripe_payment_intent_id = ?
PaymentPosting_markPosted(postings, cin7_sale_id, stripe_payment_intent_id, cin7_response) ==
    [i \in 1..Len(postings) |->
        IF SamePair(postings[i], cin7_sale_id, stripe_payment_intent_id)
        THEN [postings[i] EXCEPT !.posted_to_cin7 = TRUE, !.cin7_response = cin7_response]
        ELSE postings[i]]

\* findById, called by the admin retry route: the row with this primary key.
PaymentPosting_findById(postings, id) ==
    FirstRow(postings, LAMBDA r : r.id = id)

\* -------------------------------------------------- idempotencyKeyRepository
\* The key string `create_payment_link:${cin7SaleId}`.
IdempotencyKey(cin7_sale_id) == <<"create_payment_link", cin7_sale_id>>

\* A check that never finds the key.
IdempotencyKey_existsAndNotExpired_Never(keys, key, t) == FALSE

\* existsAndNotExpired: SELECT COUNT(*) FROM idempotency_keys
\* WHERE key = ? AND expires_at > datetime('now')  > 0
IdempotencyKey_existsAndNotExpired(keys, key, t) ==
    CountRows(keys, LAMBDA r : r.key = key /\ ExpiresAfterNow(r.expires_at, t)) > 0

\* A key column without its UNIQUE constraint.
IdempotencyKey_createThrows_Never(keys, key) == FALSE

\* The UNIQUE constraint on idempotency_keys.key rejects the insert.
IdempotencyKey_createThrows(keys, key) ==
    \E i \in 1..Len(keys) : keys[i].key = key

\* A key insert that stores nothing.
IdempotencyKey_create_Lost(keys, key, operation, expires_at) == keys

\* create: INSERT INTO idempotency_keys (key, operation, response_data, expires_at)
IdempotencyKey_create(keys, key, operation, expires_at) ==
    Append(keys, [key |-> key, operation |-> operation,
                  response_data |-> NULL, expires_at |-> expires_at])

\* An update that attaches nothing to the key.
IdempotencyKey_updateResponseData_Noop(keys, key, response_data) == keys

\* updateResponseData: UPDATE idempotency_keys SET response_data = ? WHERE key = ?
IdempotencyKey_updateResponseData(keys, key, response_data) ==
    [i \in 1..Len(keys) |->
        IF keys[i].key = key
        THEN [keys[i] EXCEPT !.response_data = response_data]
        ELSE keys[i]]

\* deleteExpired: DELETE FROM idempotency_keys WHERE expires_at <= datetime('now')
IdempotencyKey_deleteExpired(keys, t) ==
    SelectSeq(keys, LAMBDA r : ~ExpiresAtOrBeforeNow(r.expires_at, t))

\* The count query of the cleanup route:
\* SELECT COUNT(*) FROM idempotency_keys WHERE expires_at < CURRENT_TIMESTAMP
IdempotencyKey_countExpired(keys, t) ==
    CountRows(keys, LAMBDA r : ExpiresAtOrBeforeNow(r.expires_at, t))

\* -------------------------------------------------------------- stripeClient
\* config.STRIPE_WEBHOOK_SECRET of the running service.
STRIPE_WEBHOOK_SECRET == "whsec_service"

\* The stripe-signature header Stripe computes for a payload under a secret,
\* and the absent header.
Sign(payload, secret) == <<secret, payload>>

NoSignature == << >>

\* The headers a request carrying event e arrives with: none, Stripe's own,
\* and one computed under another secret.
Signatures(e) ==
    {NoSignature, Sign(e, STRIPE_WEBHOOK_SECRET), Sign(e, "whsec_other")}

\* A verification that accepts every header.
verifyWebhookSignature_Any(body, signature) == TRUE

\* verifyWebhookSignature: stripe.webhooks.constructEvent returns the event
\* when the header is the signature of the body under the configured secret,
\* and throws otherwise (FALSE).
verifyWebhookSignature(body, signature) ==
    signature = Sign(body, STRIPE_WEBHOOK_SECRET)

\* An extraction that never returns null.
NoPaymentData_Never(event) == FALSE

\* extractPaymentData returns null: no cin7_sale_id or no cin7_reference.
NoPaymentData(event) ==
    LET cin7SaleId == IF event.cin7_sale_id # "" THEN ParseInt(event.cin7_sale_id) ELSE NULL
    IN  cin7SaleId = NULL \/ event.cin7_reference = ""

\* extractPaymentData: the PaymentCompletedData of an event with metadata.
\* An absent stripePaymentIntentId (undefined) is the empty string here.
extractPaymentData(event) ==
    [cin7SaleId    |-> ParseInt(event.cin7_sale_id),
     cin7Reference |-> event.cin7_reference,
     stripeChargeId |->
         IF event.type = "charge.succeeded" THEN event.object_id ELSE "",
     stripePaymentIntentId |->
         IF event.type = "payment_intent.succeeded" THEN event.object_id ELSE "",
     amount   |-> event.amount,
     currency |-> ToUpperCase(IF event.currency # "" THEN event.currency ELSE "usd")]

\* paymentData.stripePaymentIntentId || paymentData.stripeChargeId
IntentOrCharge(paymentData) ==
    IF paymentData.stripePaymentIntentId # ""
    THEN paymentData.stripePaymentIntentId
    ELSE paymentData.stripeChargeId

\* config.CIN7_API_KEY is set. The module-level `new Cin7Client()` throws at
\* import when it is not, so a running service has the key configured.
Cin7ApiKeyConfigured == config.CIN7_API_KEY # ""

\* ------------------------------------------------------ saleDiscoveryWorker
\* An eligibility check that takes every sale that has a status.
isSaleEligible_AnyStatus(sale) == sale.Status # ""

\* isSaleEligible: sale.Status?.toUpperCase() is AUTHORISED or INVOICED.
isSaleEligible(sale) ==
    LET status == ToUpperCase(sale.Status)
    IN  IF status = "" THEN FALSE ELSE status \in {"AUTHORISED", "INVOICED"}

\* A conversion that looks at sale.Total only and cuts the fraction off.
calculateSaleAmount_TotalTruncated(sale) == sale.Total \div 10

\* calculateSaleAmount: Math.round((Total || TotalBeforeTax || GrandTotal || 0) * 100),
\* Math.round rounding halves up; totals are in thousandths here.
calculateSaleAmount(sale) ==
    LET total == IF sale.Total # 0 THEN sale.Total
                 ELSE IF sale.TotalBeforeTax # 0 THEN sale.TotalBeforeTax
                 ELSE IF sale.GrandTotal # 0 THEN sale.GrandTotal
                 ELSE 0
    IN  (total + 5) \div 10

\* sale.SaleOrderNumber || `SALE-${cin7SaleId}`
Cin7Reference(sale) ==
    IF sale.SaleOrderNumber # "" THEN sale.SaleOrderNumber
    ELSE CASE sale.ID = 1 -> "SALE-1"
           [] sale.ID = 2 -> "SALE-2"
           [] OTHER       -> "SALE-3"

\* What cin7Client.getSales can return: the sales modified in the window, in
\* any order, no sale twice.
Batches ==
    {b \in UNION {[1..n -> SaleIds] : n \in 0..Cardinality(SaleIds)} :
        \A i, j \in DOMAIN b : i # j => b[i] # b[j]}

\* An HTTP response: the route that answered, the status code, the message
\* or error of the JSON body and, where the route reports them, old_status,
\* new_status and deleted_count.
Response(route, status, body) ==
    [route |-> route, status |-> status, body |-> body,
     old_status |-> "", new_status |-> "", deleted_count |-> 0]

\* The last message processSale or the loop around it logged, and its sale.
Log(msg, cin7_sale_id) == [msg |-> msg, cin7_sale_id |-> cin7_sale_id]

IdleCycle == [pc |-> "idle", batch |-> << >>, processed |-> 0, skipped |-> 0, failed |-> 0,
              log |-> Log("", NULL)]

\* A loop without its try/catch: a throwing processSale ends the cycle in
\* the outer catch of processNewSales.
NextSale_AbortsOnThrow(c, outcome, msg) ==
    IF outcome = "threw"
    THEN [cycle EXCEPT ![c] = IdleCycle]
    ELSE LET rest == Tail(cycle[c].batch)
         IN  [cycle EXCEPT ![c].batch = rest,
                           ![c].pc = IF rest = << >> THEN "completed" ELSE "loop",
                           ![c].processed = @ + 1,
                           ![c].log = Log(msg, Head(cycle[c].batch))]

\* The loop of processNewSales moves on after processSale returned (outcome
\* "returned": processed++) or threw (outcome "threw": failed++, 'Failed to
\* process sale'); after the last sale the cycle logs its counts.
NextSale(c, outcome, msg) ==
    LET rest == Tail(cycle[c].batch)
    IN  [cycle EXCEPT ![c].batch = rest,
                      ![c].pc = IF rest = << >> THEN "completed" ELSE "loop",
                      ![c].processed = IF outcome = "returned" THEN @ + 1 ELSE @,
                      ![c].failed = IF outcome = "threw" THEN @ + 1 ELSE @,
                      ![c].log = Log(IF outcome = "threw" THEN "Failed to process sale"
                                     ELSE msg, Head(cycle[c].batch))]

\* The runs explored. The worker, the webhook pipeline and the admin routes
\* share the store and nothing else, so every run of the service is a run of
\* Next without the restrictions below; they keep the reachable states few:
\*   "worker"   two overlapping worker cycles, the clock and the key cleanup;
\*   "postings" the events of two pairs, admin replay and admin retry, no worker;
\*   "links"    one worker cycle, one event per sale, the link status route;
\*   "ingest"   the webhook route alone, with unsigned and wrongly signed
\*              requests and an event without linkage data.
Environments == {"worker", "postings", "links", "ingest"}

\* The further specifications below each explore one more kind of run:
\*   "admin"    the events of two pairs and the admin routes, requested with
\*              the configured token, another one and none (SpecAdmin);
\*   "schedule" the worker started and stopped with up to two cycles in
\*              flight, batches of up to MaxBatch of the four sales, with
\*              and without the Cin7 key (SpecSchedule);
\*   "timer"    the worker started and stopped with up to two cycles in
\*              flight over the two eligible sales (FairSchedule);
\*   "stop"     one worker cycle whose outbound calls all succeed, and the
\*              process exiting and starting again (SpecStop);
\*   "amounts"  one worker cycle after another over batches of up to two of
\*              the eligible sales, listed by ascending ID, those with
\*              unusual totals among them (SpecAmount);
\*   "migrations" the service started up to MaxRuns times over a migrations
\*              directory that grows, no request served (SpecMigrations);
\*   "events"   the events about one payment of sale 1, whose link exists:
\*              two charge.succeeded events, the payment_intent.succeeded
\*              event and a charge.refunded event (SpecEvents);
\*   "replay"   two events of one charge, their redelivery, admin replay and
\*              admin retry, each requested again and again (FairSpec).
CyclesOf(environment) ==
    CASE environment = "worker"   -> Cycles
      [] environment = "links"    -> {1}
      [] environment = "schedule" -> Cycles
      [] environment = "stop"     -> {1}
      [] environment = "timer"    -> Cycles
      [] environment = "amounts"  -> {1}
      [] OTHER                    -> {}

EventsOf(environment) ==
    CASE environment = "postings" -> {"evt_1", "evt_2", "evt_3"}
      [] environment = "links"    -> {"evt_1", "evt_2"}
      [] environment = "ingest"   -> {"evt_0", "evt_1"}
      [] environment = "admin"    -> {"evt_1", "evt_2"}
      [] environment = "replay"   -> {"evt_1", "evt_3"}
      [] environment = "events"   -> {"evt_1", "evt_3", "evt_4", "evt_5"}
      [] OTHER                    -> {}

\* What getSales can return in an environment.
BatchesOf(environment) ==
    IF environment = "schedule"
    THEN {b \in UNION {[1..n -> SaleIds \cup OtherSaleIds] : n \in 0..MaxBatch} :
             \A i, j \in DOMAIN b : i # j => b[i] # b[j]}
    ELSE IF environment = "amounts"
    THEN {b \in UNION {[1..n -> {1} \cup AmountSaleIds] : n \in 0..2} :
             \A i, j \in DOMAIN b : i < j => b[i] < b[j]}
    ELSE Batches

\* Requests with a missing or a wrong signature arrive in "ingest"; elsewhere
\* every request carries Stripe's signature.
SignaturesOf(environment, e) ==
    IF environment = "ingest" THEN Signatures(e) ELSE {Sign(e, STRIPE_WEBHOOK_SECRET)}

\* ------------------------------------------------------------------- config
\* The configuration the service is deployed with: every credential set, the
\* worker enabled (process.env.WORKER_ENABLED !== 'false').
DeployedConfig ==
    [ADMIN_TOKEN |-> "admin-secret", CIN7_API_KEY |-> "cin7-key", WORKER_ENABLED |-> TRUE]

\* index.ts imports the worker and the routes, and these import clients/cin7,
\* whose module-level `new Cin7Client()` throws when config.CIN7_API_KEY is
\* absent: nothing catches it, and the process ends before it listens.
ServiceAfterImport(cfg) == IF cfg.CIN7_API_KEY = "" THEN "crashed" ELSE "running"

\* --------------------------------------------------------------- migrations
\* What the migrations directory can hold: the schema script of this
\* version, scripts later versions add, and a file that is not a script.
DirectoryEntries ==
    {"001_initial_schema.sql", "002_add_refunds.sql", "003_add_audit.sql", "README.md"}

\* f.endsWith('.sql')
EndsWithSql(f) == f # "README.md"

\* The place of a name in the order of Array.prototype.sort().
SortRank(f) ==
    CASE f = "001_initial_schema.sql" -> 1
      [] f = "002_add_refunds.sql"    -> 2
      [] f = "003_add_audit.sql"      -> 3
      [] OTHER                        -> 4

RECURSIVE Sort(_)
Sort(files) ==
    IF files = {} THEN << >>
    ELSE LET first == CHOOSE f \in files : \A g \in files : SortRank(f) <= SortRank(g)
         IN  <<first>> \o Sort(files \ {first})

\* fs.readdirSync(migrationsDir).filter((f) => f.endsWith('.sql')).sort()
migrationFiles(dir) == Sort({f \in dir : EndsWithSql(f)})

\* The tables a script creates (CREATE TABLE IF NOT EXISTS).
TablesOf(file) ==
    CASE file = "001_initial_schema.sql" ->
            {"sale_payment_links", "webhook_events", "payment_postings", "idempotency_keys"}
      [] file = "002_add_refunds.sql" -> {"refunds"}
      [] file = "003_add_audit.sql"   -> {"audit_log"}
      [] OTHER -> {}

\* A check that finds no script applied.
AlreadyApplied_Never(appliedNames, file) == FALSE

\* appliedNames.has(file)
AlreadyApplied(appliedNames, file) == file \in appliedNames

\* The loop of runMigrations over the scripts left, appliedNames being the
\* names read from the migrations table before the loop. A script in
\* `failing` makes database.exec throw; the INSERT of a name the table holds
\* throws on its UNIQUE constraint. A throw ends the run there.
RECURSIVE ApplyMigrations(_, _, _, _)
ApplyMigrations(db, files, appliedNames, failing) ==
    IF files = << >> THEN [db EXCEPT !.lastRun = "completed"]
    ELSE LET file == Head(files)
         IN  IF AlreadyApplied(appliedNames, file)
             THEN ApplyMigrations(db, Tail(files), appliedNames, failing)
             ELSE IF file \in failing
             THEN [db EXCEPT !.lastRun = "threw"]
             ELSE LET executed == [db EXCEPT !.executed[file] = @ + 1,
                                             !.tables = @ \cup TablesOf(file)]
                  IN  IF \E i \in 1..Len(db.migrations) : db.migrations[i] = file
                      THEN [executed EXCEPT !.lastRun = "threw"]
                      ELSE ApplyMigrations([executed EXCEPT !.migrations = Append(@, file)],
                                           Tail(files), appliedNames, failing)

\* runMigrations: CREATE TABLE IF NOT EXISTS migrations, the scripts of the
\* directory in sorted order, the names already in the table skipped.
runMigrations(db, failing) ==
    ApplyMigrations([db EXCEPT !.runs = @ + 1], migrationFiles(db.dir),
                    {db.migrations[i] : i \in 1..Len(db.migrations)}, failing)

\* A data directory without a database yet, beside a migrations directory.
NewDatabase(dir) ==
    [dir |-> dir, migrations |-> << >>, executed |-> [f \in DirectoryEntries |-> 0],
     tables |-> {}, runs |-> 0, lastRun |-> "none"]

\* The database of the running service: index.ts has run the migrations of
\* this version before it listens.
MigratedDatabase == runMigrations(NewDatabase({"001_initial_schema.sql"}), {})

\* isRunning and intervalId of the worker, as constructed and once started.
WorkerStopped == [isRunning |-> FALSE, intervalId |-> FALSE]

WorkerStarted == [isRunning |-> TRUE, intervalId |-> TRUE]

\* The tables are empty and no handler is in flight.
InitStore ==
    /\ now = 0
    /\ sale_payment_links = << >>
    /\ webhook_events = [e \in EventIds \cup PaymentEventIds |-> << >>]
    /\ payment_postings = << >>
    /\ idempotency_keys = << >>
    /\ cycle = [c \in Cycles |-> IdleCycle]
    /\ webhookTasks = {}
    /\ retryTasks = [t \in (1..Cardinality(Pairs)) \X BOOLEAN |-> 0]
    /\ linkCalls = [s \in AllSaleIds |-> [started |-> 0, ok |-> 0]]
    /\ postCalls = [p \in Pairs |-> [started |-> 0, ok |-> 0, forced |-> 0, forcedOk |-> 0]]
    /\ response = Response("none", 0, "")

\* The service as deployed, listening, its worker started by the callback of
\* app.listen; the worker's cycles are the steps CycleStart begins.
Init ==
    /\ InitStore
    /\ database = MigratedDatabase
    /\ env \in Environments
    /\ config = DeployedConfig
    /\ service = ServiceAfterImport(config)
    /\ worker = WorkerStarted

\* processNewSales up to `await cin7Client.getSales`: started by start() and
\* by every tick of its setInterval, whether or not a cycle is in flight.
CycleStart(c) ==
    /\ worker.intervalId
    /\ cycle[c].pc = "idle"
    /\ cycle' = IF Cin7ApiKeyConfigured
                THEN [cycle EXCEPT ![c].pc = "fetch"]
                ELSE cycle
    /\ UNCHANGED <<env, database, config, service, worker, now, stores, webhookTasks, retryTasks, linkCalls, postCalls, response>>

\* getSales returns: an empty list ends the cycle, otherwise the loop starts.
CycleFetched(c) ==
    /\ cycle[c].pc = "fetch"
    /\ \E b \in BatchesOf(env) :
          cycle' = IF b = << >>
                   THEN [cycle EXCEPT ![c] = IdleCycle]
                   ELSE [cycle EXCEPT ![c] = [IdleCycle EXCEPT !.pc = "loop", !.batch = b]]
    /\ UNCHANGED <<env, database, config, service, worker, now, stores, webhookTasks, retryTasks, linkCalls, postCalls, response>>

\* getSales throws: logged, the cycle ends.
CycleFetchFailed(c) ==
    /\ cycle[c].pc = "fetch"
    /\ cycle' = [cycle EXCEPT ![c] = IdleCycle]
    /\ UNCHANGED <<env, database, config, service, worker, now, stores, webhookTasks, retryTasks, linkCalls, postCalls, response>>

\* processSale from its start to `await stripeClient.createPaymentLink`, or
\* to the return or throw that comes earlier.
ProcessSale(c) ==
    /\ cycle[c].pc = "loop"
    /\ LET sale == Cin7Sale(Head(cycle[c].batch))
           cin7SaleId == sale.ID
           idempotencyKey == IdempotencyKey(cin7SaleId)
           existingLink == SalePaymentLink_findBySaleId(sale_payment_links, cin7SaleId)
       IN  IF existingLink # << >>
           THEN /\ cycle' = NextSale(c, "returned", "Payment link already exists for sale")
                /\ UNCHANGED <<idempotency_keys, linkCalls>>
           ELSE IF ~isSaleEligible(sale)
           THEN /\ cycle' = NextSale(c, "returned", "Sale not eligible for payment link")
                /\ UNCHANGED <<idempotency_keys, linkCalls>>
           ELSE IF IdempotencyKey_existsAndNotExpired(idempotency_keys, idempotencyKey, now)
           THEN /\ cycle' = NextSale(c, "returned",
                                     "Idempotency key exists, skipping duplicate creation")
                /\ UNCHANGED <<idempotency_keys, linkCalls>>
           ELSE IF IdempotencyKey_createThrows(idempotency_keys, idempotencyKey)
           THEN /\ cycle' = NextSale(c, "threw", "")
                /\ UNCHANGED <<idempotency_keys, linkCalls>>
           ELSE /\ idempotency_keys' =
                      IdempotencyKey_create(idempotency_keys, idempotencyKey,
                                            "create_payment_link", now + KEY_TTL)
                /\ IF calculateSaleAmount(sale) <= 0
                   THEN /\ cycle' = NextSale(c, "returned", "Sale has invalid amount, skipping")
                        /\ UNCHANGED linkCalls
                   ELSE /\ cycle' = [cycle EXCEPT ![c].pc = "link",
                                                  ![c].log = Log("Creating payment link for sale",
                                                                 cin7SaleId)]
                        /\ linkCalls' = [linkCalls EXCEPT ![cin7SaleId].started = @ + 1]
    /\ UNCHANGED <<env, database, config, service, worker, now, sale_payment_links, webhook_events, payment_postings,
                   webhookTasks, retryTasks, postCalls, response>>

\* The identifier Stripe gives the n-th payment link created for a sale; the
\* link's url is https://buy.stripe.com/ followed by it.
StripePaymentLinkId(cin7SaleId, n) == 10 * cin7SaleId + n

\* createPaymentLink resolved: persist the link, attach it to the key, then
\* `await writePaymentLinkToCin7`; a rejected insert makes processSale throw.
LinkCreated(c) ==
    /\ cycle[c].pc = "link"
    /\ LET sale == Cin7Sale(Head(cycle[c].batch))
           cin7SaleId == sale.ID
           paymentLink == StripePaymentLinkId(cin7SaleId, linkCalls[cin7SaleId].ok + 1)
       IN  /\ linkCalls' = [linkCalls EXCEPT ![cin7SaleId].ok = @ + 1]
           /\ IF SalePaymentLink_createThrows(sale_payment_links, cin7SaleId)
              THEN /\ cycle' = NextSale(c, "threw", "")
                   /\ UNCHANGED <<sale_payment_links, idempotency_keys>>
              ELSE /\ sale_payment_links' =
                         SalePaymentLink_create(sale_payment_links,
                             [cin7_sale_id |-> cin7SaleId,
                              cin7_reference |-> Cin7Reference(sale),
                              stripe_payment_link_id |-> paymentLink,
                              amount |-> calculateSaleAmount(sale),
                              currency |-> ToUpperCase(IF sale.Currency # ""
                                                       THEN sale.Currency ELSE "USD"),
                              status |-> "pending"])
                   /\ idempotency_keys' =
                         IdempotencyKey_updateResponseData(idempotency_keys,
                             IdempotencyKey(cin7SaleId), paymentLink)
                   /\ cycle' = [cycle EXCEPT ![c].pc = "writeback"]
    /\ UNCHANGED <<env, database, config, service, worker, now, webhook_events, payment_postings, webhookTasks, retryTasks,
                   postCalls, response>>

\* createPaymentLink rejected: processSale throws, the loop counts a failure.
LinkFailed(c) ==
    /\ cycle[c].pc = "link"
    /\ cycle' = NextSale(c, "threw", "")
    /\ UNCHANGED <<env, database, config, service, worker, now, stores, webhookTasks, retryTasks, linkCalls, postCalls, response>>

\* A processSale that lets the error of the write-back through.
WritebackOutcome_Rethrown(ok) == IF ok THEN "returned" ELSE "threw"

\* The try/catch around `await this.writePaymentLinkToCin7`: the error is
\* logged and dropped, processSale goes on to its last log line and returns.
WritebackOutcome(ok) == "returned"

\* cin7Client.updateSale resolved or rejected (the client of this version
\* always rejects): processSale returns normally either way.
WritebackDone(c) ==
    /\ cycle[c].pc = "writeback"
    /\ \E ok \in BOOLEAN :
          cycle' = NextSale(c, WritebackOutcome(ok), "Payment link created successfully")
    /\ UNCHANGED <<env, database, config, service, worker, now, stores, webhookTasks, retryTasks, linkCalls, postCalls, response>>

\* The 'Sale discovery cycle completed' log line; the cycle is over.
CycleCompleted(c) ==
    /\ cycle[c].pc = "completed"
    /\ cycle' = [cycle EXCEPT ![c] = IdleCycle]
    /\ UNCHANGED <<env, database, config, service, worker, now, stores, webhookTasks, retryTasks, linkCalls, postCalls, response>>

\* A stop that leaves the timer armed.
stop_KeepsTimer(w) == IF w.isRunning THEN [w EXCEPT !.isRunning = FALSE] ELSE w

\* stop(): nothing when the worker is not running; otherwise clearInterval,
\* intervalId = undefined, isRunning = false.
stop(w) == IF w.isRunning THEN WorkerStopped ELSE w

\* saleDiscoveryWorker.start(): nothing when the worker is running or is
\* disabled; otherwise isRunning = true, processNewSales() runs up to its
\* first await (or returns at once without the Cin7 key), and setInterval
\* arms the timer.
WorkerStart ==
    /\ IF worker.isRunning \/ ~config.WORKER_ENABLED
       THEN UNCHANGED <<worker, cycle>>
       ELSE /\ worker' = WorkerStarted
            /\ \E c \in CyclesOf(env) :
                  /\ cycle[c].pc = "idle"
                  /\ cycle' = IF Cin7ApiKeyConfigured
                              THEN [cycle EXCEPT ![c].pc = "fetch"]
                              ELSE cycle
    /\ UNCHANGED <<env, database, config, service, now, stores, webhookTasks, retryTasks, linkCalls,
                   postCalls, response>>

\* saleDiscoveryWorker.stop(): the cycles in flight are not touched.
WorkerStop ==
    /\ worker' = stop(worker)
    /\ UNCHANGED <<env, database, config, service, now, stores, cycle, webhookTasks, retryTasks,
                   linkCalls, postCalls, response>>

\* ----------------------------------------------------------- webhook route
\* A postPayment call for the pair starts / resolves; `force` is the flag of
\* the admin retry that makes it, FALSE for the webhook pipeline.
CallStarted(calls, pair, force) ==
    IF force THEN [calls EXCEPT ![pair].forced = @ + 1]
             ELSE [calls EXCEPT ![pair].started = @ + 1]

CallSucceeded(calls, pair, force) ==
    IF force THEN [calls EXCEPT ![pair].forcedOk = @ + 1]
             ELSE [calls EXCEPT ![pair].ok = @ + 1]

\* The response Cin7 gives to the n-th successful post for a pair.
Cin7Response(calls, pair) == calls[pair].ok + calls[pair].forcedOk + 1

\* POST /api/webhooks/stripe after the signature verified, and the part of
\* processWebhookAsync that runs before the handler returns: up to
\* `await cin7Client.postPayment`, or to the return or throw that comes
\* earlier. An insert the store rejects throws: in the route it is answered
\* 400, in processWebhookAsync it is logged and the event stays unprocessed.
WebhookDeliver(e) ==
    LET event == StripeEvent(e)
        paymentData == extractPaymentData(event)
        intent == IntentOrCharge(paymentData)
        pair == <<paymentData.cin7SaleId, intent>>
        stored == WebhookEvent_create(webhook_events, e, FALSE)
    IN
    IF WebhookEvent_exists(webhook_events, e)
    THEN /\ response' = Response("webhook", 200, "alreadyProcessed")
         /\ UNCHANGED <<env, database, config, service, worker, now, stores, cycle, webhookTasks, retryTasks, linkCalls, postCalls>>
    ELSE IF WebhookEvent_createThrows(webhook_events, e)
    THEN /\ response' = Response("webhook", 400, "Webhook error")
         /\ UNCHANGED <<env, database, config, service, worker, now, stores, cycle, webhookTasks, retryTasks, linkCalls, postCalls>>
    ELSE /\ response' = Response("webhook", 200, "received")
         /\ IF NoPaymentData(event)
            THEN /\ webhook_events' = WebhookEvent_markProcessed(stored, e)
                 /\ UNCHANGED <<payment_postings, webhookTasks, postCalls>>
            ELSE IF PaymentPosting_existsForSaleAndIntent(payment_postings,
                                                          paymentData.cin7SaleId, intent)
            THEN /\ webhook_events' = WebhookEvent_markProcessed(stored, e)
                 /\ UNCHANGED <<payment_postings, webhookTasks, postCalls>>
            ELSE IF PaymentPosting_createThrows(payment_postings,
                                                paymentData.cin7SaleId, intent)
            THEN /\ webhook_events' = stored
                 /\ UNCHANGED <<payment_postings, webhookTasks, postCalls>>
            ELSE /\ payment_postings' =
                       PaymentPosting_create(payment_postings,
                           [cin7_sale_id |-> paymentData.cin7SaleId,
                            stripe_payment_intent_id |-> intent,
                            stripe_charge_id |-> paymentData.stripeChargeId,
                            amount |-> paymentData.amount,
                            currency |-> paymentData.currency,
                            posted_to_cin7 |-> FALSE])
                 /\ IF Cin7ApiKeyConfigured
                    THEN /\ webhook_events' = stored
                         /\ webhookTasks' = webhookTasks \cup {e}
                         /\ postCalls' = CallStarted(postCalls, pair, FALSE)
                    ELSE /\ webhook_events' = WebhookEvent_markProcessed(stored, e)
                         /\ UNCHANGED <<webhookTasks, postCalls>>
         /\ UNCHANGED <<env, database, config, service, worker, now, sale_payment_links, idempotency_keys, cycle, retryTasks,
                        linkCalls>>

\* POST /api/webhooks/stripe: a request without the stripe-signature header
\* is answered 400, one whose signature does not verify throws into the
\* route's catch and is answered 400; a verified one goes on as above.
WebhookRequest(e, signature) ==
    IF signature = NoSignature
    THEN /\ response' = Response("webhook", 400, "Missing signature header")
         /\ UNCHANGED <<env, database, config, service, worker, now, stores, cycle, webhookTasks, retryTasks, linkCalls, postCalls>>
    ELSE IF ~verifyWebhookSignature(e, signature)
    THEN /\ response' = Response("webhook", 400, "Webhook error")
         /\ UNCHANGED <<env, database, config, service, worker, now, stores, cycle, webhookTasks, retryTasks, linkCalls, postCalls>>
    ELSE WebhookDeliver(e)

\* postPayment resolved in processWebhookAsync: mark the posting posted, set
\* the link found for the sale to paid through updateStatus(paymentLink.id,
\* 'paid'), mark the event processed.
WebhookPostOk(e) ==
    /\ e \in webhookTasks
    /\ LET paymentData == extractPaymentData(StripeEvent(e))
           intent == IntentOrCharge(paymentData)
           pair == <<paymentData.cin7SaleId, intent>>
           paymentLink == SalePaymentLink_findBySaleId(sale_payment_links,
                                                       paymentData.cin7SaleId)
       IN  /\ postCalls' = CallSucceeded(postCalls, pair, FALSE)
           /\ payment_postings' =
                 PaymentPosting_markPosted(payment_postings, paymentData.cin7SaleId,
                                           intent, Cin7Response(postCalls, pair))
           /\ sale_payment_links' =
                 IF paymentLink # << >>
                 THEN SalePaymentLink_updateStatus(sale_payment_links,
                                                   paymentLink[1].id, "paid")
                 ELSE sale_payment_links
           /\ webhook_events' = WebhookEvent_markProcessed(webhook_events, e)
    /\ webhookTasks' = webhookTasks \ {e}
    /\ UNCHANGED <<env, database, config, service, worker, now, idempotency_keys, cycle, retryTasks, linkCalls, response>>

\* postPayment rejected in processWebhookAsync: the error is rethrown and
\* logged by the route's catch handler; nothing is written.
WebhookPostFail(e) ==
    /\ e \in webhookTasks
    /\ webhookTasks' = webhookTasks \ {e}
    /\ UNCHANGED <<env, database, config, service, worker, now, stores, cycle, retryTasks, linkCalls, postCalls, response>>

\* ------------------------------------------------------------- admin routes
PairOf(posting) == <<posting.cin7_sale_id, posting.stripe_payment_intent_id>>

\* The postPayment calls made so far, for all pairs.
RECURSIVE SumCalls(_, _)
SumCalls(calls, pairs) ==
    IF pairs = {} THEN 0
    ELSE LET p == CHOOSE x \in pairs : TRUE
         IN  calls[p].started + calls[p].forced + SumCalls(calls, pairs \ {p})

\* A retry route that does not look at posted_to_cin7.
AlreadyPosted_Unchecked(posting, force) == FALSE

\* if (posting.posted_to_cin7 && !force) of the retry route.
AlreadyPosted(posting, force) == posting.posted_to_cin7 /\ ~force

\* POST /api/admin/webhooks/replay with a valid admin token.
AdminReplay(event_id, force) ==
    /\ IF event_id = ""
       THEN /\ response' = Response("replay", 400, "event_id is required")
            /\ UNCHANGED webhook_events
       ELSE IF ~WebhookEvent_exists(webhook_events, event_id)
       THEN /\ response' = Response("replay", 404, "Event not found")
            /\ UNCHANGED webhook_events
       ELSE IF WebhookEvent_processed(webhook_events, event_id) /\ ~force
       THEN /\ response' = Response("replay", 409, "Event already processed")
            /\ UNCHANGED webhook_events
       ELSE /\ webhook_events' = WebhookEvent_resetProcessed(webhook_events, event_id)
            /\ response' = Response("replay", 200, "Event marked for replay")
    /\ UNCHANGED <<env, database, config, service, worker, now, sale_payment_links, payment_postings, idempotency_keys, cycle,
                   webhookTasks, retryTasks, linkCalls, postCalls>>

\* POST /api/admin/payments/retry with a valid admin token, up to
\* `await cin7Client.postPayment` or to the response that comes earlier.
AdminRetry(payment_posting_id, force) ==
    LET posting == PaymentPosting_findById(payment_postings, payment_posting_id)
    IN
    /\ IF payment_posting_id = 0
       THEN /\ response' = Response("retry", 400, "payment_posting_id is required")
            /\ UNCHANGED <<retryTasks, postCalls>>
       ELSE IF posting = << >>
       THEN /\ response' = Response("retry", 404, "Payment posting not found")
            /\ UNCHANGED <<retryTasks, postCalls>>
       ELSE IF AlreadyPosted(posting[1], force)
       THEN /\ response' = Response("retry", 409, "Payment already posted to Cin7")
            /\ UNCHANGED <<retryTasks, postCalls>>
       ELSE IF ~Cin7ApiKeyConfigured
       THEN /\ response' = Response("retry", 400, "CIN7_API_KEY not configured")
            /\ UNCHANGED <<retryTasks, postCalls>>
       ELSE /\ SumCalls(postCalls, Pairs) < MaxPostCalls
            /\ retryTasks' = [retryTasks EXCEPT ![<<payment_posting_id, force>>] = @ + 1]
            /\ postCalls' = CallStarted(postCalls, PairOf(posting[1]), force)
            /\ UNCHANGED response
    /\ UNCHANGED <<env, database, config, service, worker, now, stores, cycle, webhookTasks, linkCalls>>

\* postPayment resolved in the retry route: markPosted with the posting's
\* sale and intent, 200.
AdminRetryOk(payment_posting_id, force) ==
    /\ retryTasks[<<payment_posting_id, force>>] > 0
    /\ LET posting == payment_postings[payment_posting_id]
       IN  /\ postCalls' = CallSucceeded(postCalls, PairOf(posting), force)
           /\ payment_postings' =
                 PaymentPosting_markPosted(payment_postings, posting.cin7_sale_id,
                                           posting.stripe_payment_intent_id,
                                           Cin7Response(postCalls, PairOf(posting)))
    /\ retryTasks' = [retryTasks EXCEPT ![<<payment_posting_id, force>>] = @ - 1]
    /\ response' = Response("retry", 200, "Payment successfully posted to Cin7")
    /\ UNCHANGED <<env, database, config, service, worker, now, sale_payment_links, webhook_events, idempotency_keys, cycle,
                   webhookTasks, linkCalls>>

\* A retry route that stores the error as the posting's response.
AdminRetryFail_StoresError(payment_posting_id, force) ==
    /\ retryTasks[<<payment_posting_id, force>>] > 0
    /\ retryTasks' = [retryTasks EXCEPT ![<<payment_posting_id, force>>] = @ - 1]
    /\ payment_postings' = [payment_postings EXCEPT ![payment_posting_id].cin7_response = -1]
    /\ response' = Response("retry", 502, "Failed to post payment to Cin7")
    /\ UNCHANGED <<env, database, config, service, worker, now, sale_payment_links, webhook_events,
                   idempotency_keys, cycle, webhookTasks, linkCalls, postCalls>>

\* postPayment rejected in the retry route: 502, nothing is written.
AdminRetryFail(payment_posting_id, force) ==
    /\ retryTasks[<<payment_posting_id, force>>] > 0
    /\ retryTasks' = [retryTasks EXCEPT ![<<payment_posting_id, force>>] = @ - 1]
    /\ response' = Response("retry", 502, "Failed to post payment to Cin7")
    /\ UNCHANGED <<env, database, config, service, worker, now, stores, cycle, webhookTasks, linkCalls, postCalls>>

\* POST /api/admin/payment-links/status with a valid admin token.
AdminSetLinkStatus(payment_link_id, status) ==
    LET link == SalePaymentLink_findById(sale_payment_links, payment_link_id)
    IN
    /\ IF payment_link_id = 0 \/ status = ""
       THEN /\ response' = Response("link-status", 400,
                                    "payment_link_id and status are required")
            /\ UNCHANGED sale_payment_links
       ELSE IF status \notin {"pending", "paid", "failed"}
       THEN /\ response' = Response("link-status", 400, "Invalid status")
            /\ UNCHANGED sale_payment_links
       ELSE IF link = << >>
       THEN /\ response' = Response("link-status", 404, "Payment link not found")
            /\ UNCHANGED sale_payment_links
       ELSE /\ sale_payment_links' =
                  SalePaymentLink_updateStatus(sale_payment_links, payment_link_id, status)
            /\ response' = [Response("link-status", 200, "Payment link status updated")
                               EXCEPT !.old_status = link[1].status,
                                      !.new_status = status]
    /\ UNCHANGED <<env, database, config, service, worker, now, webhook_events, payment_postings, idempotency_keys, cycle,
                   webhookTasks, retryTasks, linkCalls, postCalls>>

\* POST /api/admin/idempotency-keys/cleanup with a valid admin token: count
\* the expired keys, then deleteExpired.
AdminCleanup ==
    /\ idempotency_keys' = IdempotencyKey_deleteExpired(idempotency_keys, now)
    /\ response' = [Response("cleanup", 200, "expired keys deleted")
                       EXCEPT !.deleted_count =
                                  IdempotencyKey_countExpired(idempotency_keys, now)]
    /\ UNCHANGED <<env, database, config, service, worker, now, sale_payment_links, webhook_events, payment_postings, cycle,
                   webhookTasks, retryTasks, linkCalls, postCalls>>

\* Half a day passes. An outbound call ends within its HTTP timeout (30 s
\* for the Cin7 client), so no worker cycle is in flight across a tick.
Tick ==
    /\ now < MaxNow
    /\ \A c \in Cycles : cycle[c].pc = "idle"
    /\ now' = now + 1
    /\ UNCHANGED <<env, database, config, service, worker, stores, cycle, webhookTasks, retryTasks, linkCalls, postCalls, response>>

\* SIGINT or SIGTERM: the handler stops the worker, closes the database and
\* exits the process, and the service is started again. Every handler that
\* awaits an outbound call is gone; the tables are on disk and stay.
ProcessExit ==
    /\ \/ webhookTasks # {}
       \/ \E task \in DOMAIN retryTasks : retryTasks[task] > 0
       \/ \E c \in Cycles : cycle[c].pc # "idle"
    /\ webhookTasks' = {}
    /\ retryTasks' = [task \in DOMAIN retryTasks |-> 0]
    /\ cycle' = [c \in Cycles |-> IdleCycle]
    /\ worker' = IF config.WORKER_ENABLED THEN WorkerStarted ELSE WorkerStopped
    /\ UNCHANGED <<env, database, config, service, now, stores, linkCalls, postCalls, response>>

Next ==
    \/ \E c \in CyclesOf(env) : CycleStart(c)
    \/ \E c \in CyclesOf(env) : CycleFetched(c)
    \/ \E c \in CyclesOf(env) : CycleFetchFailed(c)
    \/ \E c \in CyclesOf(env) : ProcessSale(c)
    \/ \E c \in CyclesOf(env) : LinkCreated(c)
    \/ \E c \in CyclesOf(env) : LinkFailed(c)
    \/ \E c \in CyclesOf(env) : WritebackDone(c)
    \/ \E c \in CyclesOf(env) : CycleCompleted(c)
    \/ \E e \in EventsOf(env) : \E signature \in SignaturesOf(env, e) : WebhookRequest(e, signature)
    \/ \E e \in EventsOf(env) : WebhookPostOk(e)
    \/ \E e \in EventsOf(env) : WebhookPostFail(e)
    \/ \E e \in EventIds \cup {""}, force \in BOOLEAN :
          env = "postings" /\ AdminReplay(e, force)
    \/ \E id \in 0..(Len(payment_postings) + 1), force \in BOOLEAN :
          env = "postings" /\ AdminRetry(id, force)
    \/ \E id \in 1..Len(payment_postings), force \in BOOLEAN :
          env = "postings" /\ AdminRetryOk(id, force)
    \/ \E id \in 1..Len(payment_postings), force \in BOOLEAN :
          env = "postings" /\ AdminRetryFail(id, force)
    \/ \E id \in 0..(Len(sale_payment_links) + 1),
          status \in {"pending", "paid", "failed", "expired", ""} :
          env = "links" /\ AdminSetLinkStatus(id, status)
    \/ env = "worker" /\ AdminCleanup
    \/ env = "worker" /\ Tick
    \/ ProcessExit

Spec == Init /\ [][Next]_vars

\* ------------------------------------------------------- admin authentication
\* The x-admin-token headers a request arrives with: none, the token the
\* service is deployed with, another one.
AdminTokens == {"", "admin-secret", "guess"}

\* A check that only compares the header with the configured token.
Unauthorized_ByComparison(adminToken, ADMIN_TOKEN) == adminToken # ADMIN_TOKEN

\* !adminToken || !config.ADMIN_TOKEN || adminToken !== config.ADMIN_TOKEN
Unauthorized(adminToken, ADMIN_TOKEN) ==
    adminToken = "" \/ ADMIN_TOKEN = "" \/ adminToken # ADMIN_TOKEN

\* adminAuthMiddleware, which adminRouter.use puts before every admin route:
\* 401 {error: 'Unauthorized'} and the route is not entered, or next().
adminAuthMiddleware(adminToken, path, next) ==
    IF Unauthorized(adminToken, config.ADMIN_TOKEN)
    THEN /\ response' = Response(path, 401, "Unauthorized")
         /\ UNCHANGED <<env, database, config, service, worker, now, stores, cycle, webhookTasks,
                        retryTasks, linkCalls, postCalls>>
    ELSE next

\* The four admin routes that write, as requests with their token header.
ReplayRequest(adminToken, event_id, force) ==
    adminAuthMiddleware(adminToken, "replay", AdminReplay(event_id, force))

RetryRequest(adminToken, payment_posting_id, force) ==
    adminAuthMiddleware(adminToken, "retry", AdminRetry(payment_posting_id, force))

LinkStatusRequest(adminToken, payment_link_id, status) ==
    adminAuthMiddleware(adminToken, "link-status", AdminSetLinkStatus(payment_link_id, status))

CleanupRequest(adminToken) ==
    adminAuthMiddleware(adminToken, "cleanup", AdminCleanup)

\* The service deployed with and without ADMIN_TOKEN, the webhook pipeline
\* for two events, and admin requests under every token.
InitAdmin ==
    /\ InitStore
    /\ database = MigratedDatabase
    /\ env = "admin"
    /\ config \in {DeployedConfig, [DeployedConfig EXCEPT !.ADMIN_TOKEN = ""]}
    /\ service = ServiceAfterImport(config)
    /\ worker = WorkerStarted

NextAdmin ==
    \/ \E e \in EventsOf(env) : WebhookRequest(e, Sign(e, STRIPE_WEBHOOK_SECRET))
    \/ \E e \in EventsOf(env) : WebhookPostOk(e)
    \/ \E e \in EventsOf(env) : WebhookPostFail(e)
    \/ \E adminToken \in AdminTokens, e \in EventsOf(env) \cup {"evt_3"}, force \in BOOLEAN :
          ReplayRequest(adminToken, e, force)
    \/ \E adminToken \in AdminTokens, id \in 1..(Len(payment_postings) + 1), force \in BOOLEAN :
          RetryRequest(adminToken, id, force)
    \/ \E id \in 1..Len(payment_postings), force \in BOOLEAN : AdminRetryOk(id, force)
    \/ \E id \in 1..Len(payment_postings), force \in BOOLEAN : AdminRetryFail(id, force)
    \/ \E adminToken \in AdminTokens, status \in {"paid", "failed"} :
          LinkStatusRequest(adminToken, 1, status)
    \/ \E adminToken \in AdminTokens : CleanupRequest(adminToken)

SpecAdmin == InitAdmin /\ [][NextAdmin]_vars

\* ------------------------------------------------------- worker scheduling
\* The service as constructed, before the callback of app.listen has started
\* the worker: deployed as usual, without the Cin7 key, or with the worker
\* disabled. A crashed process takes no step.
InitSchedule ==
    /\ InitStore
    /\ database = MigratedDatabase
    /\ env = "schedule"
    /\ config \in {DeployedConfig,
                   [DeployedConfig EXCEPT !.CIN7_API_KEY = ""],
                   [DeployedConfig EXCEPT !.WORKER_ENABLED = FALSE]}
    /\ service = ServiceAfterImport(config)
    /\ worker = WorkerStopped

\* The cycles a process that is running can be in.
RunningCycles == IF service = "running" THEN CyclesOf(env) ELSE {}

NextSchedule ==
    \/ service = "running" /\ WorkerStart
    \/ service = "running" /\ WorkerStop
    \/ \E c \in RunningCycles : CycleStart(c)
    \/ \E c \in RunningCycles : CycleFetched(c)
    \/ \E c \in RunningCycles : CycleFetchFailed(c)
    \/ \E c \in RunningCycles : ProcessSale(c)
    \/ \E c \in RunningCycles : LinkCreated(c)
    \/ \E c \in RunningCycles : LinkFailed(c)
    \/ \E c \in RunningCycles : WritebackDone(c)
    \/ \E c \in RunningCycles : CycleCompleted(c)

SpecSchedule == InitSchedule /\ [][NextSchedule]_vars

\* One step of a cycle in flight: the continuation of the await it is at.
CycleStep(c) ==
    \/ CycleFetched(c)
    \/ CycleFetchFailed(c)
    \/ ProcessSale(c)
    \/ LinkCreated(c)
    \/ LinkFailed(c)
    \/ WritebackDone(c)
    \/ CycleCompleted(c)

\* Every outbound call of a cycle resolves or rejects in the end and the
\* event loop then runs the continuation: a cycle in flight is never left
\* waiting forever. Nothing obliges start, stop or the timer to happen.
InitTimer ==
    /\ InitStore
    /\ database = MigratedDatabase
    /\ env = "timer"
    /\ config \in {DeployedConfig, [DeployedConfig EXCEPT !.WORKER_ENABLED = FALSE]}
    /\ service = ServiceAfterImport(config)
    /\ worker = WorkerStopped

FairSchedule ==
    InitTimer /\ [][NextSchedule]_vars /\ \A c \in Cycles : WF_vars(CycleStep(c))

\* The worker's cycles when every outbound call succeeds, and the process
\* exiting at any point of a cycle and starting again.
InitStop ==
    /\ InitStore
    /\ database = MigratedDatabase
    /\ env = "stop"
    /\ config = DeployedConfig
    /\ service = ServiceAfterImport(config)
    /\ worker = WorkerStarted

NextStop ==
    \/ \E c \in CyclesOf(env) : CycleStart(c)
    \/ \E c \in CyclesOf(env) : CycleFetched(c)
    \/ \E c \in CyclesOf(env) : ProcessSale(c)
    \/ \E c \in CyclesOf(env) : LinkCreated(c)
    \/ \E c \in CyclesOf(env) : WritebackDone(c)
    \/ \E c \in CyclesOf(env) : CycleCompleted(c)
    \/ ProcessExit

SpecStop == InitStop /\ [][NextStop]_vars

\* The worker's cycles, one at a time, over the eligible sales and their
\* totals.
InitAmount ==
    /\ InitStore
    /\ database = MigratedDatabase
    /\ env = "amounts"
    /\ config = DeployedConfig
    /\ service = ServiceAfterImport(config)
    /\ worker = WorkerStarted

NextAmount ==
    \/ \E c \in CyclesOf(env) : CycleStart(c)
    \/ \E c \in CyclesOf(env) : CycleFetched(c)
    \/ \E c \in CyclesOf(env) : CycleFetchFailed(c)
    \/ \E c \in CyclesOf(env) : ProcessSale(c)
    \/ \E c \in CyclesOf(env) : LinkCreated(c)
    \/ \E c \in CyclesOf(env) : LinkFailed(c)
    \/ \E c \in CyclesOf(env) : WritebackDone(c)
    \/ \E c \in CyclesOf(env) : CycleCompleted(c)

SpecAmount == InitAmount /\ [][NextAmount]_vars

\* ------------------------------------------------------- the life of a link
\* One worker cycle after another, the events of the two sales' payments and
\* the admin's link status route.
InitLinks ==
    /\ InitStore
    /\ database = MigratedDatabase
    /\ env = "links"
    /\ config = DeployedConfig
    /\ service = ServiceAfterImport(config)
    /\ worker = WorkerStarted

NextLinks ==
    \/ \E c \in CyclesOf(env) : CycleStart(c)
    \/ \E c \in CyclesOf(env) : CycleFetched(c)
    \/ \E c \in CyclesOf(env) : CycleFetchFailed(c)
    \/ \E c \in CyclesOf(env) : ProcessSale(c)
    \/ \E c \in CyclesOf(env) : LinkCreated(c)
    \/ \E c \in CyclesOf(env) : LinkFailed(c)
    \/ \E c \in CyclesOf(env) : WritebackDone(c)
    \/ \E c \in CyclesOf(env) : CycleCompleted(c)
    \/ \E e \in EventsOf(env) : WebhookRequest(e, Sign(e, STRIPE_WEBHOOK_SECRET))
    \/ \E e \in EventsOf(env) : WebhookPostOk(e)
    \/ \E e \in EventsOf(env) : WebhookPostFail(e)
    \/ \E id \in 0..(Len(sale_payment_links) + 1),
          status \in {"pending", "paid", "failed", "expired", ""} :
          AdminSetLinkStatus(id, status)

SpecLinks == InitLinks /\ [][NextLinks]_vars

\* --------------------------------------------------- events of one payment
\* The worker has created the link of sale 1; Stripe then delivers the events
\* about its payment, each as often as it likes, and the admin replays them.
LinkOfSale1 ==
    [cin7_sale_id |-> 1, cin7_reference |-> Cin7Reference(Cin7Sale(1)),
     stripe_payment_link_id |-> StripePaymentLinkId(1, 1),
     amount |-> calculateSaleAmount(Cin7Sale(1)),
     currency |-> ToUpperCase(Cin7Sale(1).Currency), status |-> "pending"]

InitEvents ==
    /\ now = 0
    /\ sale_payment_links = SalePaymentLink_create(<< >>, LinkOfSale1)
    /\ webhook_events = [e \in EventIds \cup PaymentEventIds |-> << >>]
    /\ payment_postings = << >>
    /\ idempotency_keys =
          IdempotencyKey_updateResponseData(
              IdempotencyKey_create(<< >>, IdempotencyKey(1), "create_payment_link", KEY_TTL),
              IdempotencyKey(1), StripePaymentLinkId(1, 1))
    /\ cycle = [c \in Cycles |-> IdleCycle]
    /\ webhookTasks = {}
    /\ retryTasks = [t \in (1..Cardinality(Pairs)) \X BOOLEAN |-> 0]
    /\ linkCalls = [s \in AllSaleIds |->
                        IF s = 1 THEN [started |-> 1, ok |-> 1] ELSE [started |-> 0, ok |-> 0]]
    /\ postCalls = [p \in Pairs |-> [started |-> 0, ok |-> 0, forced |-> 0, forcedOk |-> 0]]
    /\ response = Response("none", 0, "")
    /\ database = MigratedDatabase
    /\ env = "events"
    /\ config = DeployedConfig
    /\ service = ServiceAfterImport(config)
    /\ worker = WorkerStarted

NextEvents ==
    \/ \E e \in EventsOf(env) : WebhookRequest(e, Sign(e, STRIPE_WEBHOOK_SECRET))
    \/ \E e \in EventsOf(env) : WebhookPostOk(e)
    \/ \E e \in EventsOf(env) : WebhookPostFail(e)
    \/ \E e \in EventsOf(env), force \in BOOLEAN : AdminReplay(e, force)

SpecEvents == InitEvents /\ [][NextEvents]_vars

\* --------------------------------------------------------------- migrations
\* The service started again and again over a migrations directory that new
\* versions add files to; a script may fail when it is executed.
InitMigrations ==
    /\ InitStore
    /\ env = "migrations"
    /\ config = DeployedConfig
    /\ service = ServiceAfterImport(config)
    /\ worker = WorkerStopped
    /\ \E dir \in SUBSET DirectoryEntries : database = NewDatabase(dir)

\* index.ts at startup: runMigrations(); a throw is logged and the process
\* exits with code 1.
RunMigrations ==
    /\ database.runs < MaxRuns
    /\ \E failing \in SUBSET {f \in database.dir : EndsWithSql(f)} :
          database' = runMigrations(database, failing)
    /\ UNCHANGED <<env, config, service, worker, now, stores, cycle, webhookTasks, retryTasks,
                   linkCalls, postCalls, response>>

\* A new version of the service ships one more file in the directory.
DeployFile ==
    /\ \E f \in DirectoryEntries \ database.dir :
          database' = [database EXCEPT !.dir = @ \cup {f}, !.lastRun = "none"]
    /\ UNCHANGED <<env, config, service, worker, now, stores, cycle, webhookTasks, retryTasks,
                   linkCalls, postCalls, response>>

NextMigrations == RunMigrations \/ DeployFile

SpecMigrations == InitMigrations /\ [][NextMigrations]_vars

\* ---------------------------------------------------------- replayed events
\* Two events of one charge, delivered and redelivered, replayed and retried
\* by the admin.
InitReplay ==
    /\ InitStore
    /\ database = MigratedDatabase
    /\ env = "replay"
    /\ config = DeployedConfig
    /\ service = ServiceAfterImport(config)
    /\ worker = WorkerStarted

NextReplay ==
    \/ \E e \in EventsOf(env) : WebhookRequest(e, Sign(e, STRIPE_WEBHOOK_SECRET))
    \/ \E e \in EventsOf(env) : WebhookPostOk(e)
    \/ \E e \in EventsOf(env) : WebhookPostFail(e)
    \/ \E e \in EventsOf(env), force \in BOOLEAN : AdminReplay(e, force)
    \/ \E id \in 1..Len(payment_postings), force \in BOOLEAN : AdminRetry(id, force)
    \/ \E id \in 1..Len(payment_postings), force \in BOOLEAN : AdminRetryOk(id, force)
    \/ \E id \in 1..Len(payment_postings), force \in BOOLEAN : AdminRetryFail(id, force)

\* Every operation a caller can request is requested again whenever it
\* stays possible, and an outbound call that can resolve does resolve.
FairSpec ==
    /\ InitReplay
    /\ [][NextReplay]_vars
    /\ \A e \in EventsOf("replay") :
          /\ WF_vars(WebhookRequest(e, Sign(e, STRIPE_WEBHOOK_SECRET)))
          /\ WF_vars(WebhookPostOk(e))
          /\ \A force \in BOOLEAN : WF_vars(AdminReplay(e, force))
    /\ \A force \in BOOLEAN :
          /\ WF_vars(AdminRetry(1, force))
          /\ WF_vars(AdminRetryOk(1, force))

\* ===================================================================== claims
\* Counting helpers for the properties below.
LinkRows(links, cin7_sale_id) ==
    CountRows(links, LAMBDA r : r.cin7_sale_id = cin7_sale_id)

LinkCallsInFlight(cycles, cin7_sale_id) ==
    Cardinality({c \in Cycles : /\ cycles[c].pc = "link"
                                /\ Head(cycles[c].batch) = cin7_sale_id})

PostedRows(postings, pair) ==
    CountRows(postings, LAMBDA r : PairOf(r) = pair /\ r.posted_to_cin7)

\* C1: once a run of processSale has created the payment link of a sale (its
\* Stripe call and its insert succeeded), a later run of processSale for the
\* same sale finds exactly one link row for it, makes no create-payment-link
\* call and leaves the link table as it is.
C1_SecondRunCreatesNothing ==
    [][\A c \in Cycles :
          (ProcessSale(c) /\ linkCalls[Head(cycle[c].batch)].ok >= 1)
              => /\ LinkRows(sale_payment_links, Head(cycle[c].batch)) = 1
                 /\ sale_payment_links' = sale_payment_links
                 /\ linkCalls' = linkCalls
                 /\ cycle'[c].pc # "link"]_vars

\* A run of processSale has just returned at 'Payment link already exists'
\* for a sale whose single link an earlier run created with one call.
C1_Witness ==
    \E c \in Cycles, s \in SaleIds :
        /\ cycle[c].log = Log("Payment link already exists for sale", s)
        /\ LinkRows(sale_payment_links, s) = 1
        /\ linkCalls[s] = [started |-> 1, ok |-> 1]

\* C2: whatever the interleaving of two overlapping cycles, a sale has at
\* most one link row, at most one create-payment-link call in flight and at
\* most one that succeeded; and while no reservation can have expired yet
\* (the clock is still within the day the first TTL ends) at most one such
\* call was made for it at all.
C2_OverlappingCyclesCreateOnce ==
    \A s \in SaleIds :
        /\ LinkRows(sale_payment_links, s) <= 1
        /\ LinkCallsInFlight(cycle, s) <= 1
        /\ linkCalls[s].ok <= 1
        /\ (DayOf(now) <= DayOf(KEY_TTL) => linkCalls[s].started <= 1)

\* One cycle waits for Stripe to create the link of a sale while the other
\* has just skipped the same sale because of the reservation.
C2_Witness ==
    \E c1, c2 \in Cycles, s \in SaleIds :
        /\ c1 # c2
        /\ cycle[c1].pc = "link"
        /\ Head(cycle[c1].batch) = s
        /\ cycle[c2].log = Log("Idempotency key exists, skipping duplicate creation", s)
        /\ linkCalls[s].started = 1

\* C3: an event id has at most one webhook_events row; a delivery of an event
\* that already has a row is answered 200 and changes no table and starts no
\* postPayment call; the webhook pipeline starts the call for an event only
\* in the delivery that stores its row, so at most once per event.
C3_DuplicateDeliveryOnlyAcknowledged ==
    [][\A e \in EventIds :
          /\ Len(webhook_events[e]) <= 1
          /\ Len(webhook_events'[e]) <= 1
          /\ (Len(webhook_events[e]) > 0 /\ WebhookDeliver(e))
                => /\ response'.status = 200
                   /\ webhook_events' = webhook_events
                   /\ payment_postings' = payment_postings
                   /\ sale_payment_links' = sale_payment_links
                   /\ postCalls' = postCalls
                   /\ webhookTasks' = webhookTasks
          /\ (e \in webhookTasks' /\ e \notin webhookTasks)
                => Len(webhook_events[e]) = 0]_vars

\* evt_1 was delivered, its call was made, and a second delivery of it has
\* just been acknowledged.
C3_Witness ==
    /\ response = Response("webhook", 200, "alreadyProcessed")
    /\ \A e \in EventIds : Len(webhook_events[e]) = (IF e = "evt_1" THEN 1 ELSE 0)
    /\ postCalls[<<1, "ch_1">>].started = 1

\* C4: a (sale, intent) pair has at most one posting row, hence at most one
\* posted row; and once its row is posted, no step starts another postPayment
\* call for the pair except an admin retry with force.
C4_OnePostedRowNoCallWithoutForce ==
    [][/\ \A i, j \in 1..Len(payment_postings') :
             PairOf(payment_postings'[i]) = PairOf(payment_postings'[j]) => i = j
       /\ \A i \in 1..Len(payment_postings) :
             payment_postings[i].posted_to_cin7
                => postCalls'[PairOf(payment_postings[i])].started
                      = postCalls[PairOf(payment_postings[i])].started]_vars

\* A retry without force of a posted posting has just been refused with 409,
\* after the one call that posted it.
C4_Witness ==
    /\ response.route = "retry"
    /\ response.status = 409
    /\ \E p \in Pairs : /\ PostedRows(payment_postings, p) = 1
                        /\ postCalls[p].started = 1
                        /\ postCalls[p].forced = 0

\* The (sale, intent-or-charge) pair an event's payment is posted under.
EventPair(e) ==
    LET paymentData == extractPaymentData(StripeEvent(e))
    IN  <<paymentData.cin7SaleId, IntentOrCharge(paymentData)>>

\* A postPayment call for the pair is awaited by the webhook pipeline or by
\* an admin retry.
PostInFlight(pair) ==
    \/ \E e \in webhookTasks : EventPair(e) = pair
    \/ \E i \in 1..Len(payment_postings), force \in BOOLEAN :
          PairOf(payment_postings[i]) = pair /\ retryTasks[<<i, force>>] > 0

\* C5: webhook deliveries, redeliveries and admin retries without force never
\* make two successful postPayment calls for the same (sale, intent) pair.
C5_NeverPostedTwiceWithoutForce ==
    \A i \in 1..Len(payment_postings) : postCalls[PairOf(payment_postings[i])].ok <= 1

\* C6: when the postPayment call of a webhook event succeeds, the posting of
\* the event's pair is posted with the response attached, and every link row
\* of the event's sale has status paid, whatever the sale id and the row id.
C6_WebhookSuccessMarksPostedAndPaid ==
    [][\A e \in EventIds :
          WebhookPostOk(e)
             => /\ \E i \in 1..Len(payment_postings') :
                      /\ PairOf(payment_postings'[i]) = EventPair(e)
                      /\ payment_postings'[i].posted_to_cin7
                      /\ payment_postings'[i].cin7_response # NULL
                /\ \A i \in 1..Len(sale_payment_links') :
                      sale_payment_links'[i].cin7_sale_id = EventPair(e)[1]
                         => sale_payment_links'[i].status = "paid"]_vars

\* C7: when the postPayment call of a webhook event fails, the step writes to
\* no table (so no link status changes); after it the event's row is there
\* with processed = false, the posting row of its pair is there, and that
\* row is unposted unless an admin retry has posted the pair in the meantime.
C7_FailedPostLeavesUnpostedUnprocessed ==
    [][\A e \in EventIds :
          WebhookPostFail(e)
             => /\ sale_payment_links' = sale_payment_links
                /\ Len(webhook_events'[e]) = 1
                /\ webhook_events'[e][1] = FALSE
                /\ \E i \in 1..Len(payment_postings') :
                      PairOf(payment_postings'[i]) = EventPair(e)
                /\ \A i \in 1..Len(payment_postings') :
                      (/\ PairOf(payment_postings'[i]) = EventPair(e)
                       /\ postCalls[EventPair(e)].ok + postCalls[EventPair(e)].forcedOk = 0)
                         => ~payment_postings'[i].posted_to_cin7]_vars

\* The call of evt_1 has failed: its row is unprocessed and nothing is in
\* flight, the posting of its pair is unposted after one call, and the link
\* of its sale is still pending.
C7_Witness ==
    /\ env = "links"
    /\ webhookTasks = {}
    /\ Len(webhook_events["evt_1"]) = 1
    /\ webhook_events["evt_1"][1] = FALSE
    /\ postCalls[EventPair("evt_1")] = [started |-> 1, ok |-> 0, forced |-> 0, forcedOk |-> 0]
    /\ \E i \in 1..Len(payment_postings) :
          /\ PairOf(payment_postings[i]) = EventPair("evt_1")
          /\ ~payment_postings[i].posted_to_cin7
    /\ \E i \in 1..Len(sale_payment_links) :
          /\ sale_payment_links[i].cin7_sale_id = 1
          /\ sale_payment_links[i].status = "pending"

\* C8: when the postPayment call of an admin retry succeeds, the posting is
\* posted, its pair still has one row, and every stored event of the pair
\* that is not being processed is marked processed.
C8_RetryFlipsPostingAndEvent ==
    [][\A id \in 1..Len(payment_postings), force \in BOOLEAN :
          AdminRetryOk(id, force)
             => /\ payment_postings'[id].posted_to_cin7
                /\ Len(payment_postings') = Len(payment_postings)
                /\ \A e \in EventIds \ webhookTasks :
                      (/\ Len(webhook_events[e]) = 1
                       /\ EventPair(e) = PairOf(payment_postings[id]))
                         => webhook_events'[e][1] = TRUE]_vars

\* C9: when the side-effect stage runs for a new event and finds the posting
\* row of its pair unposted with no call in flight (the earlier call failed),
\* it makes the postPayment call again instead of inserting or stopping.
C9_StageResumesWithUnpostedRow ==
    [][\A e \in EventIds :
          (/\ Len(webhook_events[e]) = 0
           /\ WebhookDeliver(e)
           /\ ~NoPaymentData(StripeEvent(e))
           /\ ~PostInFlight(EventPair(e))
           /\ \E i \in 1..Len(payment_postings) :
                 /\ PairOf(payment_postings[i]) = EventPair(e)
                 /\ ~payment_postings[i].posted_to_cin7)
             => /\ Len(payment_postings') = Len(payment_postings)
                /\ e \in webhookTasks'
                /\ postCalls'[EventPair(e)].started
                      = postCalls[EventPair(e)].started + 1]_vars

\* C10: an event that carries linkage data is marked processed only when the
\* posting of its pair is posted.
C10_ProcessedOnlyWhenPosted ==
    \A e \in EventIds :
        (/\ Len(webhook_events[e]) = 1
         /\ webhook_events[e][1] = TRUE
         /\ ~NoPaymentData(StripeEvent(e)))
           => \E i \in 1..Len(payment_postings) :
                 /\ PairOf(payment_postings[i]) = EventPair(e)
                 /\ payment_postings[i].posted_to_cin7

\* C11: a posting row is posted only when a postPayment call for its pair has
\* returned successfully (from the webhook pipeline or an admin retry), and no
\* step turns a posted row back to unposted.
C11_PostedOnlyAfterSuccessfulCall ==
    [][/\ \A i \in 1..Len(payment_postings') :
             payment_postings'[i].posted_to_cin7
                => postCalls'[PairOf(payment_postings'[i])].ok
                      + postCalls'[PairOf(payment_postings'[i])].forcedOk >= 1
       /\ \A i \in 1..Len(payment_postings) :
             payment_postings[i].posted_to_cin7 => payment_postings'[i].posted_to_cin7]_vars

\* One posting is posted after its call succeeded while another, whose only
\* call failed, is unposted.
C11_Witness ==
    \E i, j \in 1..Len(payment_postings) :
        /\ payment_postings[i].posted_to_cin7
        /\ postCalls[PairOf(payment_postings[i])].ok = 1
        /\ ~payment_postings[j].posted_to_cin7
        /\ postCalls[PairOf(payment_postings[j])].started = 1
        /\ postCalls[PairOf(payment_postings[j])].ok = 0
        /\ ~PostInFlight(PairOf(payment_postings[j]))

\* The rows of idempotency_keys that hold the key of a sale.
KeyRows(keys, cin7_sale_id) ==
    {i \in 1..Len(keys) : keys[i].key = IdempotencyKey(cin7_sale_id)}

\* C12: no two rows of idempotency_keys ever hold the same key, and a
\* reservation attempt for a key that already has a row inserts nothing: of
\* two concurrent attempts one inserts the row and the other finds it held.
C12_KeyReservationExclusive ==
    [][/\ \A i, j \in 1..Len(idempotency_keys') :
             idempotency_keys'[i].key = idempotency_keys'[j].key => i = j
       /\ \A c \in Cycles :
             (ProcessSale(c) /\ KeyRows(idempotency_keys, Head(cycle[c].batch)) # {})
                => idempotency_keys' = idempotency_keys]_vars

\* Two cycles attempted the reservation for the same sale at the same time:
\* one holds the only key row and waits for Stripe, the other found it held.
C12_Witness ==
    \E c1, c2 \in Cycles, s \in SaleIds :
        /\ c1 # c2
        /\ cycle[c1].log = Log("Creating payment link for sale", s)
        /\ cycle[c1].pc = "link"
        /\ cycle[c2].log = Log("Idempotency key exists, skipping duplicate creation", s)
        /\ Cardinality(KeyRows(idempotency_keys, s)) = 1
        /\ Len(idempotency_keys) = 1

\* C13: a run of processSale for a sale whose key exists and has not expired
\* is skipped: it returns without throwing, makes no create-payment-link
\* call, and inserts no link row and no key.
C13_LiveKeySkipsSale ==
    [][\A c \in Cycles :
          (/\ ProcessSale(c)
           /\ \E i \in KeyRows(idempotency_keys, Head(cycle[c].batch)) :
                 DayOf(idempotency_keys[i].expires_at) >= DayOf(now))
             => /\ linkCalls' = linkCalls
                /\ sale_payment_links' = sale_payment_links
                /\ idempotency_keys' = idempotency_keys
                /\ cycle'[c].pc # "link"
                /\ cycle'[c].failed = cycle[c].failed]_vars

\* A sale was skipped because of the key its failed create call left behind.
C13_Witness ==
    \E c \in Cycles, s \in SaleIds :
        /\ cycle[c].log = Log("Idempotency key exists, skipping duplicate creation", s)
        /\ linkCalls[s] = [started |-> 1, ok |-> 0]
        /\ LinkCallsInFlight(cycle, s) = 0
        /\ LinkRows(sale_payment_links, s) = 0

\* The run of processSale by cycle c reaches the key insert while an expired
\* key of the sale is still stored: no link, eligible, positive amount, and
\* every key row of the sale has expired.
ReachesInsertOverExpiredKey(c) ==
    LET s == Head(cycle[c].batch)
    IN  /\ LinkRows(sale_payment_links, s) = 0
        /\ isSaleEligible(Cin7Sale(s))
        /\ calculateSaleAmount(Cin7Sale(s)) > 0
        /\ KeyRows(idempotency_keys, s) # {}
        /\ \A i \in KeyRows(idempotency_keys, s) :
              DayOf(idempotency_keys[i].expires_at) < DayOf(now)

\* C14: once the key of a sale has expired, the next run of processSale for
\* the sale (eligible, no link yet) is not blocked by it: it reserves the key
\* again and goes on to the create-payment-link call.
C14_ExpiredKeyNoLongerBlocks ==
    [][\A c \in Cycles :
          (ProcessSale(c) /\ ReachesInsertOverExpiredKey(c))
             => /\ cycle'[c].pc = "link"
                /\ \E i \in KeyRows(idempotency_keys', Head(cycle[c].batch)) :
                      DayOf(idempotency_keys'[i].expires_at) >= DayOf(now)]_vars

\* C15: when the key insert violates the uniqueness constraint, the sale is
\* skipped as already reserved: nothing is logged as a failure and the
\* cycle's failed count does not grow.
C15_UniqueViolationIsAlreadyReserved ==
    [][\A c \in Cycles :
          (ProcessSale(c) /\ ReachesInsertOverExpiredKey(c))
             => /\ cycle'[c].failed = cycle[c].failed
                /\ cycle'[c].log.msg # "Failed to process sale"
                /\ linkCalls' = linkCalls]_vars

\* C16: every webhook request that arrives without a signature, or with one
\* that is not Stripe's for its payload, is answered 400 and changes no table
\* and starts no outbound call.
C16_BadSignatureRejectedNoMutation ==
    [][\A e \in EventsOf(env) : \A signature \in SignaturesOf(env, e) :
          (/\ signature # Sign(e, STRIPE_WEBHOOK_SECRET)
           /\ WebhookRequest(e, signature))
             => /\ response'.status = 400
                /\ webhook_events' = webhook_events
                /\ payment_postings' = payment_postings
                /\ sale_payment_links' = sale_payment_links
                /\ idempotency_keys' = idempotency_keys
                /\ webhookTasks' = webhookTasks
                /\ postCalls' = postCalls
                /\ linkCalls' = linkCalls]_vars

\* A wrongly signed request has just been rejected and no event is stored.
C16_Witness ==
    /\ response = Response("webhook", 400, "Webhook error")
    /\ \A e \in EventIds : Len(webhook_events[e]) = 0
    /\ payment_postings = << >>
    /\ webhookTasks = {}

\* C17: every delivery of a validly signed event is answered 200, whether the
\* event is new or already stored, also while the call of an earlier delivery
\* is in flight; after it the event has exactly one row, and the delivery of
\* a stored event starts nothing.
C17_ConcurrentDeliveriesBothAcknowledged ==
    [][\A e \in EventIds :
          (response'.route = "webhook" /\ WebhookRequest(e, Sign(e, STRIPE_WEBHOOK_SECRET)))
             => /\ response'.status = 200
                /\ Len(webhook_events'[e]) = 1
                /\ Len(webhook_events[e]) = 1
                      => /\ webhookTasks' = webhookTasks
                         /\ postCalls' = postCalls
                         /\ payment_postings' = payment_postings]_vars

\* The second delivery of evt_1 was acknowledged while the postPayment call
\* the first one started is still awaited.
C17_Witness ==
    /\ response = Response("webhook", 200, "alreadyProcessed")
    /\ webhookTasks = {"evt_1"}
    /\ Len(webhook_events["evt_1"]) = 1
    /\ postCalls[EventPair("evt_1")].started = 1

C19_NoLinkageEarlyExit ==
    [][\A e \in EventIds :
          (/\ Len(webhook_events[e]) = 0
           /\ StripeEvent(e).cin7_sale_id = "" \/ StripeEvent(e).cin7_reference = ""
           /\ response'.route = "webhook"
           /\ WebhookRequest(e, Sign(e, STRIPE_WEBHOOK_SECRET)))
             => /\ webhook_events'[e] = <<TRUE>>
                /\ payment_postings' = payment_postings
                /\ sale_payment_links' = sale_payment_links
                /\ webhookTasks' = webhookTasks
                /\ postCalls' = postCalls]_vars

\* evt_0, which carries no reference, is stored and processed, and there is
\* no posting.
C19_Witness ==
    /\ webhook_events["evt_0"] = <<TRUE>>
    /\ payment_postings = << >>
    /\ \A p \in Pairs : postCalls[p].started = 0

\* C20: admin replay answers 404 for an unknown event and 409 for a processed
\* event without force, changing nothing; otherwise the event's processed
\* flag is false afterwards and the answer is 200. In every case no row is
\* created or deleted, no other event, posting or link changes, and no
\* outbound call starts.
C20_ReplayResetsOrRefuses ==
    [][\A e \in EventIds, force \in BOOLEAN :
          (response'.route = "replay" /\ AdminReplay(e, force))
             => /\ \A x \in EventIds :
                      /\ Len(webhook_events'[x]) = Len(webhook_events[x])
                      /\ x # e => webhook_events'[x] = webhook_events[x]
                /\ payment_postings' = payment_postings
                /\ sale_payment_links' = sale_payment_links
                /\ idempotency_keys' = idempotency_keys
                /\ webhookTasks' = webhookTasks
                /\ retryTasks' = retryTasks
                /\ postCalls' = postCalls
                /\ IF Len(webhook_events[e]) = 0
                   THEN response'.status = 404 /\ webhook_events' = webhook_events
                   ELSE IF webhook_events[e][1] /\ ~force
                   THEN response'.status = 409 /\ webhook_events' = webhook_events
                   ELSE response'.status = 200 /\ webhook_events'[e] = <<FALSE>>]_vars

\* evt_1 was processed and its payment posted, and a replay with force has
\* just reset it.
C20_Witness ==
    /\ response = Response("replay", 200, "Event marked for replay")
    /\ webhook_events["evt_1"] = <<FALSE>>
    /\ \E i \in 1..Len(payment_postings) :
          /\ PairOf(payment_postings[i]) = EventPair("evt_1")
          /\ payment_postings[i].posted_to_cin7

\* The event has a row, it is unprocessed, and no postPayment call for it is
\* awaited: what admin replay leaves of a processed event.
Stalled(e) ==
    /\ webhook_events[e] = <<FALSE>>
    /\ e \notin webhookTasks

\* C21: once admin replay has reset a stored event to unprocessed, the
\* operations a caller has (redelivery of the event, admin replay, admin
\* retry), requested again and again, lead to the event being processed
\* again.
C21_ReplayedEventIsReprocessed ==
    \A e \in EventsOf("replay") :
        [](/\ response = Response("replay", 200, "Event marked for replay")
           /\ Stalled(e)
              => <>(webhook_events[e] = <<TRUE>>))

\* No step of the service takes an event out of the stalled state: the
\* webhook route answers a stored event without entering the side-effect
\* stage, and no admin route enters it or marks the event processed.
StalledEventStaysStalled ==
    [][\A e \in EventIds : Stalled(e) => Stalled(e)']_vars

\* C22: admin retry changes no table on its error outcomes. For an unknown
\* posting identifier it answers 404; for a posted row without force it
\* answers 409 and starts no postPayment call; and the step in which its
\* postPayment call fails answers 502 and leaves every table, the posting
\* row with its posted flag and response payload included, as it was.
C22_RetryErrorsChangeNothing ==
    [][/\ \A id \in 1..(Len(payment_postings) + 1), force \in BOOLEAN :
             (/\ response'.route = "retry"
              /\ \/ id > Len(payment_postings)
                 \/ payment_postings[id].posted_to_cin7 /\ ~force
              /\ AdminRetry(id, force))
                => /\ response'.status = IF id > Len(payment_postings) THEN 404 ELSE 409
                   /\ stores' = stores
                   /\ retryTasks' = retryTasks
                   /\ postCalls' = postCalls
       /\ \A id \in 1..Len(payment_postings), force \in BOOLEAN :
             (/\ retryTasks'[<<id, force>>] = retryTasks[<<id, force>>] - 1
              /\ postCalls' = postCalls)
                => /\ stores' = stores
                   /\ payment_postings'[id] = payment_postings[id]
                   /\ \/ response' = Response("retry", 502, "Failed to post payment to Cin7")
                      \/ response' = response]_vars

\* The call of a retry has just failed: the answer is 502, nothing is in
\* flight, and the posting is still unposted without a response payload
\* after the webhook's call and the retry's.
C22_Witness ==
    /\ response = Response("retry", 502, "Failed to post payment to Cin7")
    /\ webhookTasks = {}
    /\ \A task \in DOMAIN retryTasks : retryTasks[task] = 0
    /\ Len(payment_postings) = 1
    /\ ~payment_postings[1].posted_to_cin7
    /\ payment_postings[1].cin7_response = NULL
    /\ postCalls[PairOf(payment_postings[1])].started = 2
    /\ postCalls[PairOf(payment_postings[1])].ok = 0

\* C23: the link status route, asked to set an accepted status on the link
\* with a given payment-link identifier, sets that link's status, leaves
\* every other link as it was and answers 200 with the old and the new
\* status; for an identifier no link has it answers 404 and changes nothing.
C23_ForceSetLinkStatus ==
    [][\A id \in 1..(Len(sale_payment_links) + 1), status \in LinkStatuses :
          (response'.route = "link-status" /\ AdminSetLinkStatus(id, status))
             => IF id > Len(sale_payment_links)
                THEN /\ response'.status = 404
                     /\ sale_payment_links' = sale_payment_links
                ELSE /\ response'.status = 200
                     /\ response'.old_status = sale_payment_links[id].status
                     /\ response'.new_status = status
                     /\ Len(sale_payment_links') = Len(sale_payment_links)
                     /\ \A j \in 1..Len(sale_payment_links) :
                           sale_payment_links'[j] =
                              IF j = id
                              THEN [sale_payment_links[j] EXCEPT !.status = status]
                              ELSE sale_payment_links[j]]_vars

\* The step answers 401 Unauthorized for the route and changes no table and
\* starts no outbound call.
Rejected(path) ==
    /\ response' = Response(path, 401, "Unauthorized")
    /\ stores' = stores
    /\ webhookTasks' = webhookTasks
    /\ retryTasks' = retryTasks
    /\ postCalls' = postCalls
    /\ linkCalls' = linkCalls

\* C24: a request to an admin route whose token is missing, differs from
\* the configured token, or arrives while no token is configured is answered
\* 401 with the same body in all three cases, changes no table and starts
\* no outbound call. So while no token is configured, every answer of an
\* admin route is that 401 and no admin retry is ever in flight.
C24_AdminRoutesNeedTheToken ==
    [][/\ \A adminToken \in AdminTokens :
             (adminToken = "" \/ config.ADMIN_TOKEN = "" \/ adminToken # config.ADMIN_TOKEN)
                => /\ \A e \in EventIds, force \in BOOLEAN :
                         (response'.route = "replay" /\ ReplayRequest(adminToken, e, force))
                            => Rejected("replay")
                   /\ \A id \in 1..(Len(payment_postings) + 1), force \in BOOLEAN :
                         (/\ response'.route = "retry" \/ retryTasks' # retryTasks
                          /\ RetryRequest(adminToken, id, force))
                            => Rejected("retry")
                   /\ \A id \in 1..(Len(sale_payment_links) + 1), status \in LinkStatuses :
                         (/\ response'.route = "link-status"
                          /\ LinkStatusRequest(adminToken, id, status))
                            => Rejected("link-status")
                   /\ (response'.route = "cleanup" /\ CleanupRequest(adminToken))
                         => Rejected("cleanup")
       /\ config.ADMIN_TOKEN = ""
             => /\ response'.route \in {"replay", "retry", "link-status", "cleanup"}
                      => response' = Response(response'.route, 401, "Unauthorized")
                /\ \A task \in DOMAIN retryTasks : retryTasks'[task] = 0]_vars

\* No admin token is configured, a posting is unposted with no call in
\* flight, and a retry request has just been answered 401.
C24_Witness ==
    /\ config.ADMIN_TOKEN = ""
    /\ response = Response("retry", 401, "Unauthorized")
    /\ webhookTasks = {}
    /\ Len(payment_postings) = 1
    /\ ~payment_postings[1].posted_to_cin7
    /\ postCalls[PairOf(payment_postings[1])].started = 1

\* C25: while a cycle works through its batch, a candidate leaves the batch
\* only by being counted as processed or as failed, one at a time, and the
\* loop then stands at the next candidate (or at its end when none is
\* left); the step that counts a failure writes to no table, so the rows of
\* the earlier candidates are kept, and it leaves the other cycle alone.
C25_FailureDoesNotAbortBatch ==
    [][\A c \in Cycles :
          /\ (cycle[c].pc \in {"loop", "link", "writeback"} /\ cycle'[c] # cycle[c])
                => \/ /\ cycle'[c].pc \in {"link", "writeback"}
                      /\ cycle'[c].batch = cycle[c].batch
                      /\ cycle'[c].processed = cycle[c].processed
                      /\ cycle'[c].failed = cycle[c].failed
                   \/ /\ cycle'[c].batch = Tail(cycle[c].batch)
                      /\ cycle'[c].pc = IF Tail(cycle[c].batch) = << >> THEN "completed"
                                        ELSE "loop"
                      /\ cycle'[c].processed + cycle'[c].failed
                            = cycle[c].processed + cycle[c].failed + 1
          /\ cycle'[c].failed > cycle[c].failed
                => /\ cycle[c].pc \in {"loop", "link"}
                   /\ cycle'[c].failed = cycle[c].failed + 1
                   /\ cycle'[c].log = Log("Failed to process sale", Head(cycle[c].batch))
                   /\ stores' = stores
                   /\ \A d \in Cycles \ {c} : cycle'[d] = cycle[d]]_vars

\* A cycle failed on sale 1 (its create-payment-link call was rejected) and
\* then created the link of sale 2, the next sale of its batch.
C25_Witness ==
    \E c \in Cycles :
        /\ cycle[c].failed = 1
        /\ cycle[c].processed = 1
        /\ cycle[c].log = Log("Payment link created successfully", 2)
        /\ linkCalls[1] = [started |-> 1, ok |-> 0]
        /\ LinkRows(sale_payment_links, 1) = 0
        /\ LinkRows(sale_payment_links, 2) = 1

\* C26: when the write-back of the link url onto the sale fails (or succeeds),
\* the step that ends the write-back changes no table: the link row persisted
\* for the sale is still there with status pending, the idempotency key still
\* holds the cached link, processSale returns normally with its last log line
\* and the sale is counted as processed, not as failed.
C26_WritebackFailureIsSwallowed ==
    [][\A c \in Cycles :
          (cycle[c].pc = "writeback" /\ cycle'[c] # cycle[c])
             => LET cin7SaleId == Head(cycle[c].batch)
                    link == SalePaymentLink_findBySaleId(sale_payment_links', cin7SaleId)
                IN  /\ stores' = stores
                    /\ linkCalls' = linkCalls
                    /\ link # << >>
                    /\ link[1].status = "pending"
                    /\ \E i \in 1..Len(idempotency_keys') :
                          /\ idempotency_keys'[i].key = IdempotencyKey(cin7SaleId)
                          /\ idempotency_keys'[i].response_data = link[1].stripe_payment_link_id
                    /\ cycle'[c].failed = cycle[c].failed
                    /\ cycle'[c].processed = cycle[c].processed + 1
                    /\ cycle'[c].batch = Tail(cycle[c].batch)
                    /\ cycle'[c].log = Log("Payment link created successfully", cin7SaleId)]_vars

\* A cycle's write-back for sale 1 is over and the cycle went on to the next
\* sale of its batch: the link row is pending, the key holds the link, no
\* failure was counted.
C26_Witness ==
    \E c \in Cycles :
        /\ cycle[c].pc = "loop"
        /\ cycle[c].log = Log("Payment link created successfully", 1)
        /\ cycle[c].failed = 0
        /\ cycle[c].processed = 1
        /\ LinkRows(sale_payment_links, 1) = 1
        /\ SalePaymentLink_findBySaleId(sale_payment_links, 1)[1].status = "pending"
        /\ \E i \in 1..Len(idempotency_keys) :
              /\ idempotency_keys[i].key = IdempotencyKey(1)
              /\ idempotency_keys[i].response_data # NULL

\* A cycle begins in this step: processNewSales is entered.
CycleBegins(c) == cycle[c].pc = "idle" /\ cycle'[c].pc # "idle"

\* C27: start on an enabled worker that is not running begins exactly one
\* cycle at once and arms the timer; any other cycle begins only at a tick of
\* the armed timer of a running worker; stop clears the timer and touches no
\* cycle, so that no cycle begins while the worker is stopped; and a cycle in
\* flight while the worker is stopped runs to its end.
C27_WorkerScheduling ==
    /\ [][/\ (~worker.isRunning /\ worker'.isRunning)
                => /\ config.WORKER_ENABLED
                   /\ worker'.intervalId
                   /\ Cardinality({c \in Cycles : CycleBegins(c)}) = 1
                   /\ \A c \in Cycles : ~CycleBegins(c) => cycle'[c] = cycle[c]
          /\ \A c \in Cycles :
                CycleBegins(c)
                   => \/ ~worker.isRunning /\ worker'.isRunning
                      \/ worker.isRunning /\ worker.intervalId /\ worker' = worker
          /\ (worker.isRunning /\ ~worker'.isRunning)
                => /\ ~worker'.intervalId
                   /\ cycle' = cycle
          /\ (~worker.isRunning /\ ~worker'.isRunning)
                => /\ ~worker.intervalId
                   /\ \A c \in Cycles : ~CycleBegins(c)]_vars
    /\ \A c \in Cycles :
          []((~worker.isRunning /\ cycle[c].pc # "idle") => <>(cycle[c].pc = "idle"))

\* The worker was stopped while one cycle was awaiting the payment link of a
\* sale, and that cycle has gone on to the write-back since; no other cycle
\* is in flight.
C27_Witness ==
    /\ ~worker.isRunning
    /\ ~worker.intervalId
    /\ config.WORKER_ENABLED
    /\ \E c \in Cycles :
          /\ cycle[c].pc = "writeback"
          /\ \A d \in Cycles \ {c} : cycle[d].pc = "idle"

\* C28: after the process was stopped in the middle of a batch, no sale has
\* two link rows, and the next cycle picks up every eligible sale that has no
\* link yet: when per-sale processing comes to such a sale (positive amount,
\* no link row, no create-payment-link call in flight for it), it goes on to
\* create the link.
C28_StoppedSaleIsPickedUp ==
    [][\A c \in Cycles :
          /\ \A s \in SaleIds : LinkRows(sale_payment_links', s) <= 1
          /\ (cycle[c].pc = "loop" /\ cycle'[c].pc \in {"loop", "link", "completed"}
                                     /\ cycle'[c] # cycle[c])
                => LET sale == Cin7Sale(Head(cycle[c].batch))
                   IN  ( /\ isSaleEligible(sale)
                         /\ calculateSaleAmount(sale) > 0
                         /\ LinkRows(sale_payment_links, sale.ID) = 0
                         /\ LinkCallsInFlight(cycle, sale.ID) = 0 )
                          => cycle'[c].pc = "link"]_vars

\* The part of C28 that the code keeps: whenever the process is stopped, no
\* sale ever has two link rows.
NoSaleHasTwoLinks == \A s \in SaleIds : LinkRows(sale_payment_links, s) <= 1

\* C29: without the Cin7 credential the service keeps running (the worker's
\* cycles are skipped, which is not a crash), no cycle is ever in flight, no
\* create-payment-link call is made and no table gets a row.
C29_NoCredentialIsNotACrash ==
    config.CIN7_API_KEY = ""
       => /\ service = "running"
          /\ \A c \in Cycles : cycle[c].pc = "idle"
          /\ \A s \in DOMAIN linkCalls : linkCalls[s].started = 0
          /\ stores = <<<< >>, << >>, << >>, << >>>>

\* The status is AUTHORISED or INVOICED in some mix of upper and lower case.
StatusIsAuthorisedOrInvoiced(sale) ==
    sale.Status \in {"AUTHORISED", "Authorised", "authorised",
                     "INVOICED", "Invoiced", "invoiced"}

\* C30: per-sale processing of a sale whose status is neither AUTHORISED nor
\* INVOICED (in any case), or that has no status, reserves no key, starts no
\* create-payment-link call and inserts no row; it goes on to the call only
\* for a sale with one of the two statuses, and it does go on for such a sale
\* that has no link row, no key and a positive amount. So no sale of another
\* status ever has a key, a call or a link row.
C30_OnlyAuthorisedOrInvoicedSalesGetALink ==
    [][/\ \A c \in Cycles :
             (cycle[c].pc = "loop" /\ cycle'[c].pc \in {"loop", "link", "completed"}
                                   /\ cycle'[c] # cycle[c])
                => LET sale == Cin7Sale(Head(cycle[c].batch))
                   IN  /\ ~StatusIsAuthorisedOrInvoiced(sale)
                            => /\ stores' = stores
                               /\ linkCalls' = linkCalls
                               /\ cycle'[c].pc # "link"
                               /\ cycle'[c].failed = cycle[c].failed
                       /\ cycle'[c].pc = "link" => StatusIsAuthorisedOrInvoiced(sale)
                       /\ ( /\ StatusIsAuthorisedOrInvoiced(sale)
                            /\ calculateSaleAmount(sale) > 0
                            /\ LinkRows(sale_payment_links, sale.ID) = 0
                            /\ KeyRows(idempotency_keys, sale.ID) = {} )
                             => /\ cycle'[c].pc = "link"
                                /\ linkCalls'[sale.ID].started = linkCalls[sale.ID].started + 1
       /\ \A s \in DOMAIN linkCalls :
             ~StatusIsAuthorisedOrInvoiced(Cin7Sale(s))
                => /\ linkCalls'[s].started = 0
                   /\ LinkRows(sale_payment_links', s) = 0
                   /\ KeyRows(idempotency_keys', s) = {}]_vars

\* One cycle created the link of sale 2, whose status is spelled Invoiced,
\* and then passed over sale 4, which has no status; the draft sale 3 was
\* passed over by the other cycle. Neither has a key, a call or a row.
C30_Witness ==
    /\ LinkRows(sale_payment_links, 2) = 1
    /\ \E c \in Cycles :
          /\ cycle[c].log = Log("Sale not eligible for payment link", 4)
          /\ cycle[c].processed = 2
    /\ \E c \in Cycles : cycle[c].log = Log("Sale not eligible for payment link", 3)
    /\ \A s \in {3, 4} :
          /\ linkCalls[s].started = 0
          /\ LinkRows(sale_payment_links, s) = 0
          /\ KeyRows(idempotency_keys, s) = {}

\* The first of the sale's candidate totals that is there (0 when none is),
\* in thousandths.
FirstTotal(sale) ==
    LET candidates == <<sale.Total, sale.TotalBeforeTax, sale.GrandTotal>>
        present == {i \in 1..3 : candidates[i] # 0}
    IN  IF present = {} THEN 0
        ELSE candidates[CHOOSE i \in present : \A j \in present : i <= j]

\* minor is the total (in thousandths) times 100, rounded to an integer.
IsInMinorUnits(minor, total) == 10 * minor - 5 <= total /\ total < 10 * minor + 5

\* C31: the amount of a link is the first present total of its sale times 100,
\* rounded (15000 for the 150.00 of sale 1), and positive; per-sale processing
\* of a sale whose amount comes to zero or less starts no create-payment-link
\* call, inserts no link row and counts no failure, the batch going on; a
\* sale with a positive amount and neither link nor key goes on to the call.
C31_AmountInMinorUnits ==
    [][/\ \A c \in Cycles :
             (cycle[c].pc = "loop" /\ cycle'[c].pc \in {"loop", "link", "completed"}
                                   /\ cycle'[c] # cycle[c])
                => LET sale == Cin7Sale(Head(cycle[c].batch))
                   IN  /\ FirstTotal(sale) < 5
                            => /\ sale_payment_links' = sale_payment_links
                               /\ linkCalls' = linkCalls
                               /\ cycle'[c].pc # "link"
                               /\ cycle'[c].failed = cycle[c].failed
                               /\ cycle'[c].batch = Tail(cycle[c].batch)
                       /\ ( /\ FirstTotal(sale) >= 5
                            /\ LinkRows(sale_payment_links, sale.ID) = 0
                            /\ KeyRows(idempotency_keys, sale.ID) = {} )
                             => /\ cycle'[c].pc = "link"
                                /\ linkCalls'[sale.ID].started = 1
       /\ \A i \in 1..Len(sale_payment_links') :
             LET link == sale_payment_links'[i]
             IN  /\ link.amount > 0
                 /\ IsInMinorUnits(link.amount, FirstTotal(Cin7Sale(link.cin7_sale_id)))
                 /\ link.cin7_sale_id = 1 => link.amount = 15000]_vars

\* Sale 1 has its link of 15000 and sale 8 (a GrandTotal of 19.996 only) its
\* link of 2000, created as the second sale of a batch; sales 5, 6 and 7 were
\* processed as far as the amount (their keys are reserved) and have no call
\* and no link, and no failure was counted.
C31_Witness ==
    /\ \E i \in 1..Len(sale_payment_links) :
          /\ sale_payment_links[i].cin7_sale_id = 1
          /\ sale_payment_links[i].amount = 15000
    /\ \E i \in 1..Len(sale_payment_links) :
          /\ sale_payment_links[i].cin7_sale_id = 8
          /\ sale_payment_links[i].amount = 2000
    /\ \A s \in {5, 6, 7} :
          /\ KeyRows(idempotency_keys, s) # {}
          /\ linkCalls[s].started = 0
          /\ LinkRows(sale_payment_links, s) = 0
    /\ cycle[1].log = Log("Payment link created successfully", 8)
    /\ cycle[1].processed = 2
    /\ cycle[1].failed = 0

\* C32: when the create-payment-link call of a cycle succeeds for a sale (it
\* is eligible, its amount is positive and it had no link), the store holds
\* exactly one link row for the sale, pending, with the sale's total in minor
\* units, its currency code in upper case (USD when it names none) and the
\* identifier Stripe gave the link, and exactly one idempotency key row for
\* the sale, with that link attached as its cached result.
C32_CreatedLinkAndKey ==
    [][\A c \in Cycles :
          (cycle[c].pc = "link" /\ cycle'[c].pc = "writeback")
             => LET sale == Cin7Sale(Head(cycle[c].batch))
                    link == SalePaymentLink_findBySaleId(sale_payment_links', sale.ID)
                IN  /\ LinkRows(sale_payment_links, sale.ID) = 0
                    /\ LinkRows(sale_payment_links', sale.ID) = 1
                    /\ Len(sale_payment_links') = Len(sale_payment_links) + 1
                    /\ link[1].status = "pending"
                    /\ link[1].amount > 0
                    /\ IsInMinorUnits(link[1].amount, FirstTotal(sale))
                    /\ link[1].currency = (CASE sale.Currency = "usd" -> "USD"
                                             [] sale.Currency = "aud" -> "AUD"
                                             [] sale.Currency = ""    -> "USD"
                                             [] OTHER -> sale.Currency)
                    /\ link[1].stripe_payment_link_id
                          = StripePaymentLinkId(sale.ID, linkCalls'[sale.ID].ok)
                    /\ Cardinality(KeyRows(idempotency_keys', sale.ID)) = 1
                    /\ \A i \in KeyRows(idempotency_keys', sale.ID) :
                          /\ idempotency_keys'[i].operation = "create_payment_link"
                          /\ idempotency_keys'[i].response_data # NULL
                          /\ idempotency_keys'[i].response_data = link[1].stripe_payment_link_id]_vars

\* The first cycle fetched sale 1 alone (AUTHORISED, 150.00 USD) and is over:
\* one link row, pending, 15000 USD, and one key row, holding the link.
C32_Witness ==
    /\ cycle[1].pc = "completed"
    /\ cycle[1].processed = 1
    /\ cycle[1].log = Log("Payment link created successfully", 1)
    /\ Len(sale_payment_links) = 1
    /\ sale_payment_links[1].cin7_sale_id = 1
    /\ sale_payment_links[1].status = "pending"
    /\ sale_payment_links[1].amount = 15000
    /\ sale_payment_links[1].currency = "USD"
    /\ Len(idempotency_keys) = 1
    /\ idempotency_keys[1].key = IdempotencyKey(1)
    /\ idempotency_keys[1].response_data = sale_payment_links[1].stripe_payment_link_id

\* The names recorded in the migrations table.
RecordedNames(db) == {db.migrations[i] : i \in 1..Len(db.migrations)}

PostingRows(postings, pair) ==
    {i \in 1..Len(postings) : PairOf(postings[i]) = pair}

\* The route has just stored the event: its side-effect stage runs in this step.
StageRuns(e) == Len(webhook_events[e]) = 0 /\ Len(webhook_events'[e]) > 0

C35_CallFollowsReservation ==
    [][\A p \in Pairs :
          /\ postCalls'[p].started <= 1
          /\ postCalls'[p].started > postCalls[p].started
             => /\ PostingRows(payment_postings, p) = {}
                /\ Cardinality(PostingRows(payment_postings', p)) = 1
                /\ \A i \in PostingRows(payment_postings', p) :
                      ~payment_postings'[i].posted_to_cin7]_vars

\* Both charge.succeeded events of the charge have been delivered, evt_3
\* first: its stage inserted the one row and its call is the only one made.
C35_Witness ==
    /\ Len(webhook_events["evt_1"]) > 0
    /\ "evt_3" \in webhookTasks
    /\ "evt_1" \notin webhookTasks
    /\ postCalls[EventPair("evt_1")].started = 1
    /\ \A i \in PostingRows(payment_postings, EventPair("evt_1")) :
          ~payment_postings[i].posted_to_cin7

\* processSale has just returned or thrown for the first sale of the batch of
\* cycle c, and the loop of processNewSales has counted it.
SaleCounted(c) ==
    /\ cycle[c].pc \in {"loop", "link", "writeback"}
    /\ cycle'[c].pc \in {"loop", "completed"}
    /\ Len(cycle'[c].batch) < Len(cycle[c].batch)

\* The counts of cycle c and the sales it still has to handle.
CountedAndLeft(cy) == cy.processed + cy.skipped + cy.failed + Len(cy.batch)

\* Every handled sale is counted exactly once, in one of the three counts.
CountsAddUpToTheBatch ==
    [][\A c \in CyclesOf(env) :
          SaleCounted(c) => CountedAndLeft(cycle'[c]) = CountedAndLeft(cycle[c])]_vars

\* C36: the counts of a cycle partition its batch: a sale that got a link is
\* counted as processed, a sale a per-sale check skipped (existing link,
\* ineligible status, key already reserved, non-positive amount) is counted
\* as skipped and not as processed, a sale whose processing raised is counted
\* as failed, and the three counts add up to the number of fetched sales.
C36_CountsPartitionTheBatch ==
    [][\A c \in CyclesOf(env) :
          SaleCounted(c) =>
             /\ CountedAndLeft(cycle'[c]) = CountedAndLeft(cycle[c])
             /\ cycle[c].pc = "writeback"
                => cycle'[c].processed = cycle[c].processed + 1
             /\ (cycle[c].pc = "loop" /\ cycle'[c].log.msg # "Failed to process sale")
                => /\ cycle'[c].skipped = cycle[c].skipped + 1
                   /\ cycle'[c].processed = cycle[c].processed
             /\ cycle'[c].log.msg = "Failed to process sale"
                => cycle'[c].failed = cycle[c].failed + 1]_vars

\* The worker, and nothing else, takes this step.
WorkerStep == cycle' # cycle

\* The webhook pipeline has just seen its post-payment call succeed.
WebhookPosted ==
    /\ webhookTasks' # webhookTasks
    /\ \E p \in Pairs : postCalls'[p].ok = postCalls[p].ok + 1

\* The link status route has just set a status.
AdminForceSet(status) ==
    /\ cycle' = cycle
    /\ webhookTasks' = webhookTasks
    /\ response'.route = "link-status"
    /\ response'.status = 200
    /\ response'.new_status = status

\* C37: no operation removes a link row; the worker changes no existing link
\* and only inserts rows with status pending; the status of a link changes
\* only when a webhook posting succeeded (to paid) or the admin set it; the
\* amount, the currency and the identifiers of a link never change.
C37_LinkLifecycle ==
    [][/\ Len(sale_payment_links') >= Len(sale_payment_links)
       /\ Len(sale_payment_links') > Len(sale_payment_links)
          => /\ WorkerStep
             /\ Len(sale_payment_links') = Len(sale_payment_links) + 1
             /\ sale_payment_links'[Len(sale_payment_links')].status = "pending"
       /\ \A i \in 1..Len(sale_payment_links) :
             /\ [sale_payment_links'[i] EXCEPT !.status = sale_payment_links[i].status]
                   = sale_payment_links[i]
             /\ WorkerStep => sale_payment_links'[i] = sale_payment_links[i]
             /\ sale_payment_links'[i].status # sale_payment_links[i].status
                => \/ WebhookPosted /\ sale_payment_links'[i].status = "paid"
                   \/ AdminForceSet(sale_payment_links'[i].status)]_vars

\* The worker created the links of both sales; the link of sale 2 was set to
\* paid by the posting of its payment, the link of sale 1 to failed by the
\* admin, and both still carry what they were created with.
C37_Witness ==
    /\ Len(sale_payment_links) = 2
    /\ \E i, j \in 1..Len(sale_payment_links) :
          /\ sale_payment_links[i].status = "paid"
          /\ sale_payment_links[j].status = "failed"
          /\ sale_payment_links[i].amount = calculateSaleAmount(Cin7Sale(sale_payment_links[i].cin7_sale_id))
    /\ \E p \in Pairs : postCalls[p].ok = 1
    /\ response.route = "link-status"

\* The cleanup route has just answered 200.
CleanupStep ==
    /\ response' # response
    /\ response'.route = "cleanup"
    /\ response'.status = 200

\* The expiry of a key has passed, or not yet, on the clock.
ExpiryPassed(key) == key.expires_at < now

Unexpired(key) == key.expires_at >= now

\* What holds of a cleanup: the rows left are rows that were there, in their
\* order, every unexpired key among them, unchanged, and the count reported
\* is the number of rows deleted.
CleanupKeepsUnexpiredKeys ==
    [][CleanupStep =>
          /\ \E kept \in SUBSET (1..Len(idempotency_keys)) :
                idempotency_keys' =
                    SelectSeq(idempotency_keys,
                              LAMBDA r : \E i \in kept : idempotency_keys[i] = r)
          /\ SelectSeq(idempotency_keys', Unexpired) = SelectSeq(idempotency_keys, Unexpired)
          /\ response'.deleted_count = Len(idempotency_keys) - Len(idempotency_keys')]_vars

\* C38: the bulk cleanup deletes exactly the keys whose expiry has passed and
\* leaves every unexpired key unchanged, and the count the route reports is
\* the number of rows deleted.
C38_CleanupDeletesExactlyTheExpired ==
    [][CleanupStep =>
          /\ idempotency_keys' = SelectSeq(idempotency_keys, Unexpired)
          /\ \A i \in 1..Len(idempotency_keys') : ~ExpiryPassed(idempotency_keys'[i])
          /\ response'.deleted_count = Len(idempotency_keys) - Len(idempotency_keys')]_vars

\* The event reports a succeeded charge or a succeeded payment intent.
IsPaymentSuccess(e) ==
    StripeEvent(e).type \in {"charge.succeeded", "payment_intent.succeeded"}

\* C39: only payment-success events lead to a posting: a verified event of
\* another type, even with the metadata of a sale, creates no PaymentPosting
\* row, starts no outbound post-payment call and sets no link to paid.
C39_OnlySuccessEventsPost ==
    [][\A e \in EventsOf(env) :
          ~IsPaymentSuccess(e) =>
             /\ e \notin webhookTasks'
             /\ StageRuns(e) => /\ payment_postings' = payment_postings
                                /\ postCalls' = postCalls
             /\ (e \in webhookTasks /\ e \notin webhookTasks')
                => sale_payment_links' = sale_payment_links]_vars

\* The events that notify the payment of the charge ch_1 of sale 1: the
\* charge.succeeded events and the payment_intent.succeeded event evt_4.
EventsOfThePayment == {"evt_1", "evt_3", "evt_4"}

\* The post-payment calls made for the payment, under whatever pair.
CallsForThePayment(calls) ==
    Cardinality({<<p, n>> \in Pairs \X (1..(MaxPostCalls + 2)) :
                    /\ \E e \in EventsOfThePayment : EventPair(e) = p
                    /\ n <= calls[p].started + calls[p].forced})

\* C40: one payment notified by a charge.succeeded event and by a
\* payment_intent.succeeded event is posted at most once: both events map to
\* the same PaymentPosting barrier (one row for the payment), and at most one
\* outbound post-payment call is made for the payment.
C40_OnePaymentIsPostedOnce ==
    /\ CallsForThePayment(postCalls) <= 1
    /\ Cardinality(UNION {PostingRows(payment_postings, EventPair(e)) :
                             e \in EventsOfThePayment}) <= 1

====
